---- MODULE Spec2Model ----
(***************************************************************************)
(* ChromaDesk: the artifact namer and store (core/history.py), the desktop *)
(* adapter (core/wallpaper.py), the persisted settings (core/config.py)    *)
(* and the two daily-update orchestrators (headless.run_daily_update and   *)
(* the --headless branch of main.main).                                    *)
(*                                                                         *)
(* Strings are sequences of one-character strings, so that formatting and  *)
(* parsing of file names are computed, not assumed.                        *)
(***************************************************************************)
EXTENDS Integers, Sequences, FiniteSets, TLC

(***************************************************************************)
(* Bounds of the model.                                                    *)
(***************************************************************************)
\* the clock runs over the days 1..MaxDay
MaxDay == 2
\* number of daily-update invocations in one behaviour
MaxRuns == 2
\* the configured keep_history ranges over 0..MaxKeep
MaxKeep == 2

(***************************************************************************)
(* Characters, digits and dates.                                           *)
(***************************************************************************)
DigitChars == <<"0", "1", "2", "3", "4", "5", "6", "7", "8", "9">>

IsDigit(c) == \E i \in 1..10 : DigitChars[i] = c

DigitVal(c) == (CHOOSE i \in 1..10 : DigitChars[i] = c) - 1

AllDigits(s) == \A i \in 1..Len(s) : IsDigit(s[i])

RECURSIVE NumVal(_)
NumVal(s) == IF s = <<>> THEN 0
             ELSE 10 * NumVal(SubSeq(s, 1, Len(s) - 1)) + DigitVal(s[Len(s)])

Pad2(n) == <<DigitChars[((n \div 10) % 10) + 1], DigitChars[(n % 10) + 1]>>

Pad4(n) == Pad2(n \div 100) \o Pad2(n % 100)

IsLeap(y) == (y % 4 = 0 /\ y % 100 # 0) \/ y % 400 = 0

DaysInMonth(y, m) == IF m = 2 THEN (IF IsLeap(y) THEN 29 ELSE 28)
                     ELSE IF m \in {4, 6, 9, 11} THEN 30 ELSE 31

NextDate(dt) == IF dt.d < DaysInMonth(dt.y, dt.m) THEN [dt EXCEPT !.d = dt.d + 1]
                ELSE IF dt.m < 12 THEN [y |-> dt.y, m |-> dt.m + 1, d |-> 1]
                ELSE [y |-> dt.y + 1, m |-> 1, d |-> 1]

\* day 0 of the clock; day 1 is the first day a run can see
EpochDate == [y |-> 2024, m |-> 4, d |-> 30]

RECURSIVE DateOf(_)
DateOf(i) == IF i = 0 THEN EpochDate ELSE NextDate(DateOf(i - 1))

\* date.isoformat(): YYYY-MM-DD
IsoFormat(dt) == Pad4(dt.y) \o <<"-">> \o Pad2(dt.m) \o <<"-">> \o Pad2(dt.d)

\* the startdate field of the Bing API: YYYYMMDD
StartDate(dt) == Pad4(dt.y) \o Pad2(dt.m) \o Pad2(dt.d)

(***************************************************************************)
(* String helpers (Python str and pathlib semantics).                      *)
(***************************************************************************)
\* str.find for a set of characters: first index holding one of cs, 0 if none
FindFirst(s, cs) == IF \E i \in 1..Len(s) : s[i] \in cs
                    THEN CHOOSE i \in 1..Len(s) :
                           s[i] \in cs /\ \A j \in 1..(i - 1) : s[j] \notin cs
                    ELSE 0

\* str.rfind: last index holding c, 0 if none
FindLast(s, c) == IF \E i \in 1..Len(s) : s[i] = c
                  THEN CHOOSE i \in 1..Len(s) :
                         s[i] = c /\ \A j \in (i + 1)..Len(s) : s[j] # c
                  ELSE 0

StartsWith(s, p) == Len(s) >= Len(p) /\ SubSeq(s, 1, Len(p)) = p

\* s[i:] with a 1-based first index
From(s, i) == SubSeq(s, i, Len(s))

\* str.split(c)[0]
SplitFirst(s, c) == LET i == FindFirst(s, {c})
                    IN  IF i = 0 THEN s ELSE SubSeq(s, 1, i - 1)

\* str.replace(c, '')
RECURSIVE Remove(_, _)
Remove(s, c) == IF s = <<>> THEN <<>>
                ELSE IF Head(s) = c THEN Remove(Tail(s), c)
                ELSE <<Head(s)>> \o Remove(Tail(s), c)

\* str.lower() on one character (the upper-case letters of the model's alphabet)
LowerChar(c) == CASE c = "J" -> "j" [] c = "P" -> "p" [] c = "G" -> "g"
                  [] c = "N" -> "n" [] OTHER -> c

Lower(s) == [i \in 1..Len(s) |-> LowerChar(s[i])]

\* urllib.parse.urlparse(url).path, or a ValueError (ok = FALSE) for a
\* network location with an unbalanced bracket
UrlParse(url) ==
    LET c     == FindFirst(url, {":"})
        noSch == IF c > 1 /\ FindFirst(SubSeq(url, 1, c - 1), {"/", "?", "#"}) = 0
                 THEN From(url, c + 1) ELSE url
        hasNl == StartsWith(noSch, <<"/", "/">>)
        aft   == IF hasNl THEN From(noSch, 3) ELSE noSch
        e     == FindFirst(aft, {"/", "?", "#"})
        nl    == IF ~hasNl THEN <<>>
                 ELSE IF e = 0 THEN aft ELSE SubSeq(aft, 1, e - 1)
        rest  == IF ~hasNl THEN noSch
                 ELSE IF e = 0 THEN <<>> ELSE From(aft, e)
        q     == FindFirst(rest, {"?", "#"})
        path  == IF q = 0 THEN rest ELSE SubSeq(rest, 1, q - 1)
        bad   == (FindFirst(nl, {"["}) # 0) # (FindFirst(nl, {"]"}) # 0)
    IN  [ok |-> ~bad, path |-> path]

\* pathlib.Path(p).suffix: the final component's last dot and what follows,
\* unless that dot leads or ends the component
RECURSIVE StripSlashes(_)
StripSlashes(p) == IF p # <<>> /\ p[Len(p)] = "/"
                   THEN StripSlashes(SubSeq(p, 1, Len(p) - 1)) ELSE p

PathSuffix(p) ==
    LET q    == StripSlashes(p)
        sl   == FindLast(q, "/")
        name == From(q, sl + 1)
        dot  == FindLast(name, ".")
    IN  IF dot > 1 /\ dot < Len(name) THEN From(name, dot) ELSE <<>>

(***************************************************************************)
(* Artifact Namer (core/history.py).                                       *)
(***************************************************************************)
BingPrefix == <<"b", "i", "n", "g", "_">>
CustomPrefix == <<"c", "u", "s", "t", "o", "m", "_">>
DotJpg == <<".", "j", "p", "g">>

\* the value a raising call yields
Raised == <<"!">>

\* get_bing_filename that keeps what follows the date in date_str
get_bing_filename_KeepsTime(date_str, image_url) ==
    LET parsed_url == UrlParse(image_url)
        suffix     == Lower(PathSuffix(parsed_url.path))
        extension  == IF suffix = <<>> THEN DotJpg ELSE suffix
        date_part  == Remove(date_str, "-")
    IN  IF parsed_url.ok THEN BingPrefix \o date_part \o extension ELSE Raised

\* get_bing_filename(date_str, image_url); when urlparse raises, the handler
\* reads the unbound local `extension` and the call raises
get_bing_filename(date_str, image_url) ==
    LET parsed_url == UrlParse(image_url)
        suffix     == Lower(PathSuffix(parsed_url.path))
        extension  == IF suffix = <<>> THEN DotJpg ELSE suffix
        date_part  == Remove(SplitFirst(date_str, "T"), "-")
    IN  IF parsed_url.ok THEN BingPrefix \o date_part \o extension ELSE Raised

\* Timestamp with the format "%Y%m%d_%H%M"
Timestamp_NoSeconds(dt, h, mi, s) == StartDate(dt) \o <<"_">> \o Pad2(h) \o Pad2(mi)

\* datetime.now().strftime("%Y%m%d_%H%M%S")
Timestamp(dt, h, mi, s) == StartDate(dt) \o <<"_">> \o Pad2(h) \o Pad2(mi) \o Pad2(s)

\* get_custom_filename that appends the extension as given
get_custom_filename_AsGiven(extension, dt, h, mi, s) ==
    CustomPrefix \o Timestamp(dt, h, mi, s) \o (IF extension = <<>> THEN DotJpg ELSE extension)

\* get_custom_filename(extension) at the moment (dt, h, mi, s)
get_custom_filename(extension, dt, h, mi, s) ==
    LET low == Lower(extension)
        ext == IF extension = <<>> THEN DotJpg
               ELSE IF low[1] = "." THEN low ELSE <<".">> \o low
    IN  CustomPrefix \o Timestamp(dt, h, mi, s) \o ext

\* the value of a failed parse
NoMatch == [day |-> -1, sec |-> -1]

\* ValidDate that takes any eight digits for a date
ValidDate_Any(y, m, d) == TRUE

\* datetime.strptime(s, "%Y%m%d") on eight digits: a calendar-valid date
ValidDate(y, m, d) == y >= 1 /\ m \in 1..12 /\ d >= 1 /\ d <= DaysInMonth(y, m)

\* a datetime as a day number and a second of the day, which order as
\* datetime objects compare
DateTimeKey(y, m, d, h, mi, s) == [day |-> (y * 13 + m) * 32 + d, sec |-> (h * 60 + mi) * 60 + s]

\* a >= b on datetimes
NotOlder(a, b) == a.day > b.day \/ (a.day = b.day /\ a.sec >= b.sec)

\* BING_FILENAME_RE = ^bing_(\d{8})\..+$
BingMatch(name) == /\ Len(name) >= 15
                   /\ StartsWith(name, BingPrefix)
                   /\ AllDigits(SubSeq(name, 6, 13))
                   /\ name[14] = "."

\* CUSTOM_FILENAME_RE = ^custom_(\d{8}_\d{6})\..+$
CustomMatch(name) == /\ Len(name) >= 24
                     /\ StartsWith(name, CustomPrefix)
                     /\ AllDigits(SubSeq(name, 8, 15))
                     /\ name[16] = "_"
                     /\ AllDigits(SubSeq(name, 17, 22))
                     /\ name[23] = "."

\* parse_datetime_from_path that takes a name it cannot parse for the oldest
parse_datetime_from_path_Lenient(name) ==
    IF BingMatch(name)
    THEN LET y == NumVal(SubSeq(name, 6, 9))
             m == NumVal(SubSeq(name, 10, 11))
             d == NumVal(SubSeq(name, 12, 13))
         IN  DateTimeKey(IF ValidDate(y, m, d) THEN y ELSE 0, m, d, 0, 0, 0)
    ELSE DateTimeKey(0, 0, 0, 0, 0, 0)

\* _parse_datetime_from_path(file_path): the datetime key, or NoMatch
parse_datetime_from_path(name) ==
    IF BingMatch(name)
    THEN LET y == NumVal(SubSeq(name, 6, 9))
             m == NumVal(SubSeq(name, 10, 11))
             d == NumVal(SubSeq(name, 12, 13))
         IN  IF ValidDate(y, m, d) THEN DateTimeKey(y, m, d, 0, 0, 0) ELSE NoMatch
    ELSE IF CustomMatch(name)
    THEN LET y  == NumVal(SubSeq(name, 8, 11))
             m  == NumVal(SubSeq(name, 12, 13))
             d  == NumVal(SubSeq(name, 14, 15))
             h  == NumVal(SubSeq(name, 17, 18))
             mi == NumVal(SubSeq(name, 19, 20))
             s  == NumVal(SubSeq(name, 21, 22))
         IN  IF ValidDate(y, m, d) /\ h <= 23 /\ mi <= 59 /\ s <= 59
             THEN DateTimeKey(y, m, d, h, mi, s) ELSE NoMatch
    ELSE NoMatch

(***************************************************************************)
(* Persisted settings (core/config.py).  The file holds the three settings *)
(* the daily update reads; a missing file reads as the defaults.           *)
(***************************************************************************)
DefaultKeep == 7

\* DEFAULT_SETTINGS
DEFAULT_SETTINGS == [enabled |-> FALSE, region |-> "en-US", keep_history |-> DefaultKeep,
                     last_update_date |-> <<>>]

\* the state of the config file when it does not exist
NoConfigFile == [exists |-> FALSE, enabled |-> FALSE, region |-> "en-US",
                 keep_history |-> DefaultKeep, last_update_date |-> <<>>]

FileOf(mem) == [exists |-> TRUE, enabled |-> mem.enabled, region |-> mem.region,
                keep_history |-> mem.keep_history,
                last_update_date |-> mem.last_update_date]

\* load_config(): the in-memory configuration (mem) and the file afterwards;
\* a missing file is created with the defaults when createOk, and the
\* defaults are used in memory when it cannot be created
load_config(file, createOk) ==
    IF file.exists
    THEN [mem  |-> [enabled |-> file.enabled, region |-> file.region,
                    keep_history |-> file.keep_history,
                    last_update_date |-> file.last_update_date],
          file |-> file]
    ELSE [mem  |-> DEFAULT_SETTINGS,
          file |-> IF createOk THEN FileOf(DEFAULT_SETTINGS) ELSE file]

\* save_config(config): the file afterwards, and whether it was written
save_config(file, mem, saveOk) ==
    [file |-> IF saveOk THEN FileOf(mem) ELSE file, ok |-> saveOk]

\* set_last_update_date that saves the configuration as loaded
set_last_update_date_Unset(file, value, createOk, saveOk) ==
    LET loaded == load_config(file, createOk)
        saved  == save_config(loaded.file, loaded.mem, saveOk)
    IN  [file |-> saved.file, saved |-> saved.ok, ret |-> "None"]

\* set_setting('State', 'last_update_date', value): load, set, save;
\* the function returns None whatever save_config reports
set_last_update_date(file, value, createOk, saveOk) ==
    LET loaded == load_config(file, createOk)
        config == [loaded.mem EXCEPT !.last_update_date = value]
        saved  == save_config(loaded.file, config, saveOk)
    IN  [file |-> saved.file, saved |-> saved.ok, ret |-> "None"]

\* set_setting(section, key, value) without its return value: load, set the
\* one key, save the whole configuration
set_setting(file, key, value, createOk, saveOk) ==
    LET loaded == load_config(file, createOk)
        config == [loaded.mem EXCEPT ![key] = value]
        saved  == save_config(loaded.file, config, saveOk)
    IN  [file |-> saved.file, saved |-> saved.ok, ret |-> "None"]

(***************************************************************************)
(* Artifact Store (core/history.py).  The directory is the set of its      *)
(* regular files; a scan sees them in some enumeration order.              *)
(***************************************************************************)
\* max_items passed by cleanup_wallpaper_history
AllItems == 99999

Recognized(name) == parse_datetime_from_path(name) # NoMatch

Range(seq) == {seq[i] : i \in 1..Len(seq)}

\* every order in which a scan can enumerate the files of a directory
RECURSIVE Orders(_)
Orders(S) == IF S = {} THEN {<<>>}
             ELSE UNION {{<<x>> \o o : o \in Orders(S \ {x})} : x \in S}

\* seq[:n]
Take(seq, n) == SubSeq(seq, 1, IF n < Len(seq) THEN n ELSE Len(seq))

\* seq[n:] for n >= 0
Drop(seq, n) == SubSeq(seq, n + 1, Len(seq))

\* the entries of a directory that holds regular files only
RegularFiles(files) == {[name |-> n, is_file |-> TRUE] : n \in files}

\* WithDates that takes every entry whose name parses, a file or not
WithDates_AllEntries(order) ==
    SelectSeq([i \in 1..Len(order) |->
                  [dt |-> parse_datetime_from_path(order[i].name), item |-> order[i].name]],
              LAMBDA p : p.dt # NoMatch)

\* wallpaper_files_with_dates: a (dt, item) pair for every entry, in the
\* order of the enumeration, that is a regular file and whose name parses
RECURSIVE WithDates(_)
WithDates(order) ==
    IF order = <<>> THEN <<>>
    ELSE LET item == Head(order)
             dt   == parse_datetime_from_path(item.name)
         IN  (IF item.is_file /\ dt # NoMatch
              THEN <<[dt |-> dt, item |-> item.name]>> ELSE <<>>)
             \o WithDates(Tail(order))

\* InsertNewestFirst that sorts oldest first
InsertNewestFirst_OldestFirst(sorted, x) ==
    LET k == Cardinality({i \in 1..Len(sorted) : NotOlder(x.dt, sorted[i].dt)})
    IN  SubSeq(sorted, 1, k) \o <<x>> \o SubSeq(sorted, k + 1, Len(sorted))

\* one step of the stable sort, newest first: x goes behind every pair
\* whose datetime is not older than x's
InsertNewestFirst(sorted, x) ==
    LET k == Cardinality({i \in 1..Len(sorted) : NotOlder(sorted[i].dt, x.dt)})
    IN  SubSeq(sorted, 1, k) \o <<x>> \o SubSeq(sorted, k + 1, Len(sorted))

\* list.sort(key=lambda x: x[0], reverse=True): stable
RECURSIVE SortNewestFirst(_)
SortNewestFirst(pairs) ==
    IF pairs = <<>> THEN <<>>
    ELSE InsertNewestFirst(SortNewestFirst(SubSeq(pairs, 1, Len(pairs) - 1)),
                           pairs[Len(pairs)])

\* get_sorted_wallpaper_history(max_items) on a directory whose entries are
\* enumerated in the given order; scanOk is FALSE when the enumeration raises OSError
get_sorted_wallpaper_history(is_dir, order, scanOk, max_items) ==
    IF ~is_dir \/ ~scanOk THEN <<>>
    ELSE LET sorted == SortNewestFirst(WithDates(order))
         IN  Take([i \in 1..Len(sorted) |-> sorted[i].item], max_items)

\* files_to_delete with the slice off by one
files_to_delete_OffByOne(all_history_files, keep) ==
    IF Len(all_history_files) <= keep THEN <<>> ELSE Drop(all_history_files, keep + 1)

\* the files cleanup_wallpaper_history(keep) tries to delete
files_to_delete(all_history_files, keep) ==
    IF Len(all_history_files) <= keep THEN <<>> ELSE Drop(all_history_files, keep)

\* cleanup_wallpaper_history that gives up at the first file it cannot delete
cleanup_wallpaper_history_Aborts(files, all_history_files, keep, locked) ==
    LET to_delete == files_to_delete(all_history_files, keep)
        deleted   == {to_delete[i] : i \in {j \in 1..Len(to_delete) :
                                              \A k \in 1..j : to_delete[k] \notin locked}}
    IN  [dir |-> files \ deleted, deleted_count |-> Cardinality(deleted)]

\* cleanup_wallpaper_history(keep) on the files of the directory, given
\* what its call of get_sorted_wallpaper_history(99999) returned; locked
\* holds the files whose unlink raises OSError
cleanup_wallpaper_history(files, all_history_files, keep, locked) ==
    LET to_delete == files_to_delete(all_history_files, keep)
        deleted   == Range(to_delete) \ locked
    IN  [dir |-> files \ deleted, deleted_count |-> Cardinality(deleted)]

(***************************************************************************)
(* Desktop Adapter (core/wallpaper.py): the command plan.                  *)
(***************************************************************************)
KEY_PICTURE_OPTIONS == "picture-options"
KEY_PICTURE_URI == "picture-uri"
KEY_PICTURE_URI_DARK == "picture-uri-dark"

\* Path.as_uri() of a file of the wallpaper directory
AsUri(path) == <<"f", "i", "l", "e", ":", "/", "/", "/">> \o path

Zoom == <<"z", "o", "o", "m">>

\* one `gsettings set org.gnome.desktop.background <key> <value>` command
SetCmd(key, value) == [key |-> key, value |-> value]

\* CommandsToRun with the dark-variant command placed before the primary one
CommandsToRun_DarkFirst(should_set_dark_uri, file_uri) ==
    <<SetCmd(KEY_PICTURE_OPTIONS, Zoom),
      SetCmd(KEY_PICTURE_OPTIONS, Zoom)>>
    \o (IF should_set_dark_uri THEN <<SetCmd(KEY_PICTURE_URI_DARK, file_uri)>> ELSE <<>>)
    \o <<SetCmd(KEY_PICTURE_URI, file_uri)>>
    \o (IF should_set_dark_uri THEN <<SetCmd(KEY_PICTURE_URI_DARK, file_uri)>> ELSE <<>>)

\* commands_to_run: the list literal holds the options command twice, and
\* the dark-variant command is appended by two identical if-blocks
CommandsToRun(should_set_dark_uri, file_uri) ==
    <<SetCmd(KEY_PICTURE_OPTIONS, Zoom),
      SetCmd(KEY_PICTURE_OPTIONS, Zoom),
      SetCmd(KEY_PICTURE_URI, file_uri)>>
    \o (IF should_set_dark_uri THEN <<SetCmd(KEY_PICTURE_URI_DARK, file_uri)>> ELSE <<>>)
    \o (IF should_set_dark_uri THEN <<SetCmd(KEY_PICTURE_URI_DARK, file_uri)>> ELSE <<>>)

\* the try-body of the execution loop calls subprocess.run twice per command
RunsPerCommand == 2

\* XDG_SESSION_TYPE, lower-cased, "unknown" when unset
SessionTypes == {"x11", "wayland", "unknown"}

\* what one subprocess.run of a set command can do
RunOutcomes == {"ok", "FileNotFoundError", "TimeoutExpired", "CalledProcessError"}

\* what `gsettings list-keys` can do in _check_gsettings_key_exists
ProbeOutcomes == {"present", "absent", "ToolMissing", "TimeoutExpired", "CalledProcessError"}

\* check_gsettings_key_exists that takes the key for present when the
\* listing fails
check_gsettings_key_exists_FailOpen(probe) == probe # "absent"

\* _check_gsettings_key_exists(schema, key)
check_gsettings_key_exists(probe) == probe = "present"

(***************************************************************************)
(* The state.                                                              *)
(***************************************************************************)
VARIABLES
    today,      \* the clock: the current day, 1..MaxDay
    cfg,        \* the config file
    isDir,      \* whether the wallpaper directory exists
    dir,        \* the regular files of the wallpaper directory
    partial,    \* the files of dir that hold no complete image
    runs,       \* daily updates started so far
    impl,       \* which orchestrator the current run executes
    pc,         \* the current run's position
    loc,        \* the current run's local variables
    ev,         \* what the current run did, in order
    snap,       \* the persisted state when the current run started
    out,        \* the outcome of the current run, once it returned
    prev,       \* the outcome of the run before the current one
    ad,         \* the adapter's invocation
    cl,         \* what the last cleanup did
    call,       \* the last call of a function of the namer or the store made on
                \* its own: its arguments and what it returned
    inv,        \* two daily updates that run at the same time: the position of
                \* each, and which of them created the file at their path
    sched,      \* the scheduler: the unit files in the systemd user directory,
                \* whether the timer is enabled, and the systemctl commands issued
    setters     \* the set_setting calls of the window's and the timer's process:
                \* the position of each and the configuration it holds in memory

vars == <<today, cfg, isDir, dir, partial, runs, impl, pc, loc, ev, snap, out, prev, ad, cl,
          call, inv, sched, setters>>


\* image URLs: no extension in the path (the Bing feed's form), an
\* upper-case extension, and a network location urlparse rejects
UrlPlain == <<"/", "/", "b", "/", "t", "h", "?", "i", "d", "=", "a", ".", "j", "p", "g">>
UrlPng == <<"/", "/", "b", "/", "i", ".", "P", "N", "G">>
UrlBad == <<"/", "/", "[", "b", "/", "i">>

\* the URLs the feed returns in the daily update
FeedUrls == {UrlPlain, UrlBad}

NoPath == <<>>

LocInit == [is_enabled |-> FALSE, keep_history_count |-> 0, last_update_str |-> <<>>,
            today_str |-> <<>>, date |-> <<>>, full_url |-> <<>>,
            local_path |-> NoPath, existed |-> FALSE, applied |-> NoPath,
            set_success |-> FALSE,
            saved |-> FALSE]

AdIdle == [state |-> "Idle", image_path |-> NoPath, session_type |-> "unknown",
           should_set_dark_uri |-> FALSE, probes |-> <<>>, commands_to_run |-> <<>>,
           idx |-> 1, call |-> 1, issued |-> <<>>, success |-> TRUE, cause |-> "none",
           notified |-> <<>>]

NoOutcome == [result |-> "none", cause |-> "none"]

NoCall == [op |-> "none"]

\* no daily updates run at the same time
NoInvocations == [inode |-> 0, run |-> <<>>]

\* no unit files, the timer not enabled, no systemctl command issued
NoScheduler == [units |-> {}, timer_enabled |-> FALSE, issued |-> <<>>]

\* no set_setting call in flight
NoSetters == <<>>

NoCleanup == [ran |-> FALSE, keep |-> 0, before |-> {}, scanOk |-> TRUE, locked |-> {},
              deleted_count |-> 0]

\* files the directory can hold before the first run: yesterday's Bing
\* image and a custom image saved on day 1; OtherFile is a file of another name
BingOld == BingPrefix \o StartDate(DateOf(0)) \o DotJpg
CustomDay1 == get_custom_filename(DotJpg, DateOf(1), 9, 0, 0)
OtherFile == <<"n", "o", "t", "e", "s", ".", "t", "x", "t">>
InitNames == {BingOld, CustomDay1}

\* the file names the daily update can derive, and so download and apply
TargetPaths == {get_bing_filename(StartDate(DateOf(d)), u) : d \in 0..MaxDay, u \in FeedUrls}
                   \ {Raised}

\* the files the directory can hold when the cleanup is called on its own:
\* two Bing images of one day, an older one, a custom image, another file and
\* a file with a Bing name whose date is no date
BingDay1 == get_bing_filename(StartDate(DateOf(1)), UrlPlain)
BingDay1Png == get_bing_filename(StartDate(DateOf(1)), UrlPng)
BingBadDate == BingPrefix \o <<"2", "0", "2", "4", "1", "3", "0", "1">> \o DotJpg
StoreNames == {BingOld, BingDay1, BingDay1Png, CustomDay1, OtherFile, BingBadDate}

\* the names among them that are no artifact's: another file's, and a Bing
\* name with month 13
ForeignNames == {OtherFile, BingBadDate}

\* the contents the directory can have
Contents == {files \in SUBSET (InitNames \cup TargetPaths \cup StoreNames) :
                files \subseteq InitNames \cup TargetPaths \/ files \subseteq StoreNames}

ConfigFiles == {NoConfigFile} \cup
               {FileOf([DEFAULT_SETTINGS EXCEPT !.enabled = e, !.keep_history = k,
                                                !.last_update_date = l]) :
                   e \in BOOLEAN, k \in 0..MaxKeep, l \in {<<>>, IsoFormat(DateOf(0))}}

Init ==
    /\ today = 1
    /\ cfg \in ConfigFiles
    /\ isDir \in BOOLEAN
    /\ dir \in (IF isDir THEN SUBSET InitNames ELSE {{}})
    /\ partial = {}
    /\ runs = 0
    /\ impl = "headless"
    /\ pc = "idle"
    /\ loc = LocInit
    /\ ev = <<>>
    /\ snap = [cfg |-> cfg, isDir |-> isDir, dir |-> dir, today |-> today]
    /\ out = NoOutcome
    /\ prev = [result |-> "none", cause |-> "none", day |-> 0]
    /\ ad = AdIdle
    /\ cl = NoCleanup
    /\ call = NoCall
    /\ inv = NoInvocations
    /\ sched = NoScheduler
    /\ setters = NoSetters

(***************************************************************************)
(* Update Orchestrator: the steps shared by headless.run_daily_update and  *)
(* the --headless branch of main.main.  Each step names the position the   *)
(* run continues at, which is where the two orchestrators differ.          *)
(***************************************************************************)
Return(result, cause) ==
    /\ pc' = "idle"
    /\ out' = [result |-> result, cause |-> cause]

Goto(nxt) ==
    /\ pc' = nxt
    /\ out' = out

\* the clock passes midnight; a run reads the clock once, so a midnight
\* during a run is one just before or just after it, and the clock is of no
\* interest once the last run has started
Tick ==
    /\ pc = "idle"
    /\ today < MaxDay
    /\ runs < MaxRuns
    /\ today' = today + 1
    /\ UNCHANGED <<cfg, isDir, dir, partial, runs, impl, pc, loc, ev, snap, out, prev, ad, cl, call, inv, sched, setters>>

\* the timer (or a user) starts a daily update
StartRun(i) ==
    /\ pc = "idle"
    /\ runs < MaxRuns
    /\ runs' = runs + 1
    /\ impl' = i
    /\ pc' = "load"
    /\ prev' = [result |-> out.result, cause |-> out.cause, day |-> snap.today]
    /\ loc' = LocInit
    /\ ev' = <<>>
    /\ snap' = [cfg |-> cfg, isDir |-> isDir, dir |-> dir, today |-> today]
    /\ out' = NoOutcome
    /\ ad' = AdIdle
    /\ cl' = NoCleanup
    /\ UNCHANGED <<today, cfg, isDir, dir, partial, call, inv, sched, setters>>

\* Disabled with the check dropped
Disabled_Never(is_enabled) == FALSE

\* step 2: whether the run leaves because daily updates are disabled
Disabled(is_enabled) == ~is_enabled

\* load the configuration and leave when daily updates are disabled
LoadConfig(nxt) ==
    /\ pc = "load"
    /\ \E createOk \in BOOLEAN :
         LET loaded == load_config(cfg, createOk)
         IN  /\ cfg' = loaded.file
             /\ ev' = IF loaded.file # cfg THEN Append(ev, "cfg_write") ELSE ev
             /\ loc' = [loc EXCEPT !.is_enabled = loaded.mem.enabled,
                                   !.keep_history_count = loaded.mem.keep_history,
                                   !.last_update_str = loaded.mem.last_update_date]
             /\ IF Disabled(loaded.mem.enabled)
                THEN Return("Skipped", "disabled") ELSE Goto(nxt)
    /\ UNCHANGED <<today, isDir, dir, partial, runs, impl, snap, prev, ad, cl, call, inv, sched, setters>>

\* whether the run's day is the day of the last successful update
AlreadyUpdated(last_update_str, today_str) == last_update_str = today_str

\* read the clock and leave when the wallpaper was already updated today
CheckDate(nxt) ==
    /\ pc = "today"
    /\ LET today_str == IsoFormat(DateOf(today))
       IN  /\ loc' = [loc EXCEPT !.today_str = today_str]
           /\ IF AlreadyUpdated(loc.last_update_str, today_str)
              THEN Return("Skipped", "already") ELSE Goto(nxt)
    /\ UNCHANGED <<today, cfg, isDir, dir, partial, runs, impl, ev, snap, prev, ad, cl, call, inv, sched, setters>>

\* ensure_wallpaper_dir(): mkdir(parents=True, exist_ok=True)
EnsureDir(nxt) ==
    /\ pc = "ensure_dir"
    /\ \E mkdirOk \in BOOLEAN :
         IF isDir THEN Goto(nxt) /\ UNCHANGED <<isDir, ev>>
         ELSE IF mkdirOk THEN Goto(nxt) /\ isDir' = TRUE /\ ev' = Append(ev, "mkdir")
         ELSE Return("Failed", "dir") /\ UNCHANGED <<isDir, ev>>
    /\ UNCHANGED <<today, cfg, dir, partial, runs, impl, loc, snap, prev, ad, cl, call, inv, sched, setters>>

\* what fetch_bing_wallpaper_info can return: None, or the image's start
\* date (today's or, for a region that lags, yesterday's) and its URL
NoInfo == [ok |-> FALSE, date |-> <<>>, full_url |-> <<>>]

FetchResults == {NoInfo} \cup
                {[ok |-> TRUE, date |-> StartDate(DateOf(d)), full_url |-> u] :
                    d \in {today - 1, today}, u \in FeedUrls}

\* Fetch that records the day as done when there is no metadata
Fetch_RecordsFailure(nxt) ==
    /\ pc = "fetch"
    /\ ev' = Append(ev, "fetch")
    /\ \E bing_info \in FetchResults :
         IF ~bing_info.ok \/ bing_info.full_url = <<>>
         THEN /\ Return("Failed", "fetch")
              /\ loc' = loc
              /\ cfg' = set_last_update_date(cfg, IsoFormat(DateOf(today)), TRUE, TRUE).file
         ELSE /\ Goto(nxt)
              /\ loc' = [loc EXCEPT !.date = bing_info.date, !.full_url = bing_info.full_url]
              /\ cfg' = cfg
    /\ UNCHANGED <<today, isDir, dir, partial, runs, impl, snap, prev, ad, cl, call, inv, sched, setters>>

\* fetch the metadata and leave when there is none
Fetch(nxt) ==
    /\ pc = "fetch"
    /\ ev' = Append(ev, "fetch")
    /\ \E bing_info \in FetchResults :
         IF ~bing_info.ok \/ bing_info.full_url = <<>>
         THEN Return("Failed", "fetch") /\ loc' = loc
         ELSE Goto(nxt) /\ loc' = [loc EXCEPT !.date = bing_info.date,
                                              !.full_url = bing_info.full_url]
    /\ UNCHANGED <<today, cfg, isDir, dir, partial, runs, impl, snap, prev, ad, cl, call, inv, sched, setters>>

\* AfterFilename without the look into the store
AfterFilename_Always(is_file) == "download"

\* where the run goes once the target path is known: to the download unless
\* the file is already in the store
AfterFilename(is_file) == IF is_file THEN "apply" ELSE "download"

\* Filename without a handler around get_bing_filename: its exception ends
\* the run
Filename_Unhandled ==
    /\ pc = "filename"
    /\ LET target_filename == get_bing_filename(loc.date, loc.full_url)
           is_file == isDir /\ target_filename \in dir
       IN  IF target_filename = Raised
           THEN Return("Crashed", "filename") /\ loc' = loc
           ELSE /\ loc' = [loc EXCEPT !.local_path = target_filename, !.existed = is_file]
                /\ Goto(AfterFilename(is_file))
    /\ UNCHANGED <<today, cfg, isDir, dir, partial, runs, impl, ev, snap, prev, ad, cl, call, inv, sched, setters>>

\* derive the target file name and look for it in the store; an exception of
\* get_bing_filename is caught (headless.py step 6, the try of main) and the
\* run returns failure
Filename ==
    /\ pc = "filename"
    /\ LET target_filename == get_bing_filename(loc.date, loc.full_url)
           is_file == isDir /\ target_filename \in dir
       IN  IF target_filename = Raised
           THEN Return("Failed", "filename") /\ loc' = loc
           ELSE /\ loc' = [loc EXCEPT !.local_path = target_filename, !.existed = is_file]
                /\ Goto(AfterFilename(is_file))
    /\ UNCHANGED <<today, cfg, isDir, dir, partial, runs, impl, ev, snap, prev, ad, cl, call, inv, sched, setters>>

(***************************************************************************)
(* Download (core/downloader.py).                                          *)
(***************************************************************************)
\* what one download can do: succeed; fail before anything is written (the
\* request fails, the body is empty or is no JPEG/PNG image, the file cannot
\* be opened); fail while writing, which leaves a truncated file
DownloadOutcomes == {"ok", "RequestException", "empty", "invalid_image",
                     "OSError_open", "OSError_write"}

\* download_image(url, save_path): the bytes are validated in memory and
\* then written to save_path
download_image(files, part, save_path, outcome) ==
    IF outcome = "ok"
    THEN [ok |-> TRUE, dir |-> files \cup {save_path}, partial |-> part \ {save_path}]
    ELSE IF outcome = "OSError_write"
    THEN [ok |-> FALSE, dir |-> files \cup {save_path}, partial |-> part \cup {save_path}]
    ELSE [ok |-> FALSE, dir |-> files, partial |-> part]

\* headless step 7: download, and on failure remove what is at the path
H_Download ==
    /\ impl = "headless"
    /\ pc = "download"
    /\ \E outcome \in DownloadOutcomes, unlinkOk \in BOOLEAN :
         LET d == download_image(dir, partial, loc.local_path, outcome)
             removed == ~d.ok /\ loc.local_path \in d.dir /\ unlinkOk
         IN  /\ dir' = IF removed THEN d.dir \ {loc.local_path} ELSE d.dir
             /\ partial' = IF removed THEN d.partial \ {loc.local_path} ELSE d.partial
             /\ ev' = ev \o <<"download">>
                         \o (IF d.dir # dir THEN <<"file_write">> ELSE <<>>)
                         \o (IF removed THEN <<"unlink">> ELSE <<>>)
             /\ IF d.ok THEN Goto("apply") ELSE Return("Failed", "download")
    /\ UNCHANGED <<today, cfg, isDir, runs, impl, loc, snap, prev, ad, cl, call, inv, sched, setters>>

\* main step 5: download; a failed download is only logged
M_Download ==
    /\ impl = "main"
    /\ pc = "download"
    /\ \E outcome \in DownloadOutcomes :
         LET d == download_image(dir, partial, loc.local_path, outcome)
         IN  /\ dir' = d.dir
             /\ partial' = d.partial
             /\ ev' = ev \o <<"download">>
                         \o (IF d.dir # dir THEN <<"file_write">> ELSE <<>>)
             /\ IF d.ok THEN Goto("apply") ELSE Return("Failed", "download")
    /\ UNCHANGED <<today, cfg, isDir, runs, impl, loc, snap, prev, ad, cl, call, inv, sched, setters>>

(***************************************************************************)
(* Desktop Adapter: set_gnome_wallpaper(image_path), one step at a time.   *)
(* A step maps the invocation's state to the states it can lead to, one    *)
(* per outcome of the external command.  The desktop's settings are        *)
(* written, never read, by the program: the model keeps the commands       *)
(* issued (ad.issued) and their outcomes.                                  *)
(***************************************************************************)
\* the block that determines should_set_dark_uri appears twice in the function
ProbeBlocks == 2

\* StartResults without the check that the image is a file
StartResults_NoFileCheck(image_path, is_file) ==
    {[AdIdle EXCEPT !.state = "Failed", !.image_path = image_path,
                    !.success = FALSE, !.cause = "ToolMissing"]}
    \cup {[AdIdle EXCEPT !.state = "ProbingEnvironment", !.image_path = image_path,
                         !.session_type = st] : st \in SessionTypes}

\* the preconditions: the image is a file and gsettings is on the PATH
StartResults(image_path, is_file) ==
    IF ~is_file
    THEN {[AdIdle EXCEPT !.state = "Failed", !.image_path = image_path,
                         !.success = FALSE, !.cause = "ArtifactNotFound"]}
    ELSE {[AdIdle EXCEPT !.state = "Failed", !.image_path = image_path,
                         !.success = FALSE, !.cause = "ToolMissing"]}
         \cup {[AdIdle EXCEPT !.state = "ProbingEnvironment", !.image_path = image_path,
                              !.session_type = st] : st \in SessionTypes}

\* should_set_dark_uri after one of the two blocks
ShouldSetDark(session_type, probe) ==
    IF session_type = "x11" THEN FALSE ELSE check_gsettings_key_exists(probe)

\* Probed that lists the keys in every session
Probed_Always(session_type, probe) == probe

\* what a block issues: no probe on x11
Probed(session_type, probe) == IF session_type = "x11" THEN "none" ELSE probe

\* ProbeResults with a probe that resets the dark-variant key
ProbeResults_Writes(a) ==
    {[a EXCEPT !.should_set_dark_uri = ShouldSetDark(a.session_type, probe),
               !.probes = Append(a.probes, Probed(a.session_type, probe)),
               !.issued = Append(a.issued, [cmd |-> SetCmd(KEY_PICTURE_URI_DARK, <<>>),
                                            outcome |-> "ok"]),
               !.state = IF Len(a.probes) + 1 = ProbeBlocks
                         THEN "BuildingCommandPlan" ELSE @] : probe \in ProbeOutcomes}

\* one of the two blocks that read the session type and probe the schema
ProbeResults(a) ==
    {[a EXCEPT !.should_set_dark_uri = ShouldSetDark(a.session_type, probe),
               !.probes = Append(a.probes, Probed(a.session_type, probe)),
               !.state = IF Len(a.probes) + 1 = ProbeBlocks
                         THEN "BuildingCommandPlan" ELSE @] : probe \in ProbeOutcomes}

\* build the command list; the probes' outcomes are not read again
BuildResult(a) ==
    [a EXCEPT !.commands_to_run = CommandsToRun(a.should_set_dark_uri, AsUri(a.image_path)),
              !.probes = <<>>, !.idx = 1, !.call = 1, !.state = "Executing"]

\* whether the loop goes on after a subprocess.run with this outcome
Continues(outcome) == outcome = "ok"

\* ExecResult with the break missing where the picture-options command
\* exits non-zero
ExecResult_NoBreak(a, outcome) ==
    LET cmd     == a.commands_to_run[a.idx]
        lastRun == a.call = RunsPerCommand
        nextIdx == IF lastRun THEN a.idx + 1 ELSE a.idx
        issued  == Append(a.issued, [cmd |-> cmd, outcome |-> outcome])
        goesOn  == \/ Continues(outcome)
                   \/ outcome = "CalledProcessError" /\ cmd.key = KEY_PICTURE_OPTIONS
    IN  IF goesOn
        THEN [a EXCEPT !.issued = issued,
                       !.success = a.success /\ Continues(outcome),
                       !.cause = IF Continues(outcome) THEN @ ELSE outcome,
                       !.idx = nextIdx,
                       !.call = IF lastRun THEN 1 ELSE a.call + 1,
                       !.state = IF nextIdx > Len(a.commands_to_run)
                                 THEN "Notifying" ELSE @]
        ELSE [a EXCEPT !.issued = issued, !.success = FALSE,
                       !.cause = outcome, !.state = "Notifying"]

\* one subprocess.run of the execution loop, with the given outcome
ExecResult(a, outcome) ==
    LET cmd     == a.commands_to_run[a.idx]
        lastRun == a.call = RunsPerCommand
        nextIdx == IF lastRun THEN a.idx + 1 ELSE a.idx
        issued  == Append(a.issued, [cmd |-> cmd, outcome |-> outcome])
    IN  IF Continues(outcome)
        THEN [a EXCEPT !.issued = issued,
                       !.idx = nextIdx,
                       !.call = IF lastRun THEN 1 ELSE a.call + 1,
                       !.state = IF nextIdx > Len(a.commands_to_run)
                                 THEN "Notifying" ELSE @]
        ELSE [a EXCEPT !.issued = issued, !.success = FALSE,
                       !.cause = outcome, !.state = "Notifying"]

\* what a notification mechanism can do: show the notification, be
\* unavailable (its library is not installed), or raise while showing it
NotifierOutcomes == {"sent", "unavailable", "raised"}

\* _send_notification_notify2(title, message, icon_path): False without the
\* libraries, False when an exception was caught
send_notification_notify2(outcome) == outcome = "sent"

\* _send_notification_dbus(title, message, icon_name)
send_notification_dbus(outcome) == outcome = "sent"

\* send_notification that calls both mechanisms
send_notification_Both(title, notify2, dbus) ==
    [title |-> title, tried |-> <<"notify2", "dbus">>, outcomes |-> <<notify2, dbus>>]

\* send_notification(title, message): notify2 first, dbus-python if that
\* did not succeed; the mechanisms called and what each did
send_notification(title, notify2, dbus) ==
    IF send_notification_notify2(notify2)
    THEN [title |-> title, tried |-> <<"notify2">>, outcomes |-> <<notify2>>]
    ELSE [title |-> title, tried |-> <<"notify2", "dbus">>, outcomes |-> <<notify2, dbus>>]

\* NotifyResults in which an exception of a mechanism reaches the caller
NotifyResults_Propagates(a) ==
    {[a EXCEPT !.notified = Append(a.notified,
                   send_notification(IF a.success THEN "ChromaDesk" ELSE "ChromaDesk Error",
                                     notify2, dbus)),
               !.success = a.success /\ "raised" \notin {notify2, dbus},
               !.state = IF "raised" \in {notify2, dbus} THEN "Raised"
                         ELSE IF a.success THEN "Succeeded" ELSE "Failed"] :
        notify2 \in NotifierOutcomes, dbus \in NotifierOutcomes}

\* the final status: the success or the failure notification is sent, then
\* set_gnome_wallpaper returns success
NotifyResults(a) ==
    {[a EXCEPT !.notified = Append(a.notified,
                   send_notification(IF a.success THEN "ChromaDesk" ELSE "ChromaDesk Error",
                                     notify2, dbus)),
               !.state = IF a.success THEN "Succeeded" ELSE "Failed"] :
        notify2 \in NotifierOutcomes, dbus \in NotifierOutcomes}

Returned(a) == a.state \in {"Succeeded", "Failed"}

\* every step the invocation can take from the state a
AdapterSteps(a) ==
    IF a.state = "ProbingEnvironment" THEN ProbeResults(a)
    ELSE IF a.state = "BuildingCommandPlan" THEN {BuildResult(a)}
    ELSE IF a.state = "Executing" THEN {ExecResult(a, outcome) : outcome \in RunOutcomes}
    ELSE IF a.state = "Notifying" THEN NotifyResults(a)
    ELSE {}

\* the states in which an invocation that is in one of the states A can return
RECURSIVE AdapterReturns(_)
AdapterReturns(A) ==
    LET done == {a \in A : Returned(a)}
        more == UNION {AdapterSteps(a) : a \in A \ done}
    IN  IF more = {} THEN done ELSE done \cup AdapterReturns(more)

\* for every such path, and whether it is a file: the values the call can return
SetGnomeWallpaperReturns ==
    [image_path \in TargetPaths |->
        [is_file \in BOOLEAN |->
            {a.success : a \in AdapterReturns(StartResults(image_path, is_file))}]]

\* set_gnome_wallpaper(image_path) as one call: the values it can return
set_gnome_wallpaper(image_path, is_file) == SetGnomeWallpaperReturns[image_path][is_file]

(***************************************************************************)
(* Update Orchestrator: after the apply.                                   *)
(***************************************************************************)
\* where the run goes with the adapter's result
AfterApply(set_success) == IF set_success THEN "set_state" ELSE "failed"

\* Apply with the date recorded before the adapter's result is looked at
Apply_RecordsFirst ==
    /\ pc = "apply"
    /\ ev' = Append(ev, "apply")
    /\ \E set_success \in set_gnome_wallpaper(loc.local_path, isDir /\ loc.local_path \in dir) :
         /\ loc' = [loc EXCEPT !.applied = loc.local_path, !.set_success = set_success]
         /\ cfg' = set_last_update_date(cfg, loc.today_str, TRUE, TRUE).file
         /\ IF AfterApply(set_success) = "set_state"
            THEN Goto("set_state") ELSE Return("Failed", "apply")
    /\ UNCHANGED <<today, isDir, dir, partial, runs, impl, snap, prev, ad, cl, call, inv, sched, setters>>

\* step 8: set the wallpaper and leave when that failed
Apply ==
    /\ pc = "apply"
    /\ ev' = Append(ev, "apply")
    /\ \E set_success \in set_gnome_wallpaper(loc.local_path, isDir /\ loc.local_path \in dir) :
         /\ loc' = [loc EXCEPT !.applied = loc.local_path, !.set_success = set_success]
         /\ IF AfterApply(set_success) = "set_state"
            THEN Goto("set_state") ELSE Return("Failed", "apply")
    /\ UNCHANGED <<today, cfg, isDir, dir, partial, runs, impl, snap, prev, ad, cl, call, inv, sched, setters>>

\* record today as the day of the last update; the run goes on whether or
\* not the file could be written
SetState ==
    /\ pc = "set_state"
    /\ \E createOk \in BOOLEAN, saveOk \in BOOLEAN :
         LET r == set_last_update_date(cfg, loc.today_str, createOk, saveOk)
         IN  /\ cfg' = r.file
             /\ loc' = [loc EXCEPT !.saved = r.saved]
             /\ ev' = Append(ev, "set_state")
    /\ Goto("cleanup")
    /\ UNCHANGED <<today, isDir, dir, partial, runs, impl, snap, prev, ad, cl, call, inv, sched, setters>>

\* for every content of the directory: what get_sorted_wallpaper_history(99999)
\* can return, over the orders in which the scan can enumerate the files
Scans ==
    {[files |-> files, is_dir |-> is_dir, scanOk |-> scanOk,
      listed |-> {get_sorted_wallpaper_history(is_dir, order, scanOk, AllItems) :
                     order \in Orders(RegularFiles(files))}] :
        files \in Contents, is_dir \in BOOLEAN, scanOk \in BOOLEAN}

ScanOf(is_dir, files, scanOk) ==
    (CHOOSE r \in Scans : r.files = files /\ r.is_dir = is_dir /\ r.scanOk = scanOk).listed

\* what one call of cleanup_wallpaper_history(keep) can do: the scan
\* enumerates the directory in some order and may fail, and any of the files
\* it tries to delete may be locked
CleanupResults(is_dir, files, keep) ==
    UNION { UNION { {[scanOk |-> scanOk, locked |-> locked,
                      res |-> cleanup_wallpaper_history(files, listed, keep, locked)] :
                         locked \in SUBSET Range(files_to_delete(listed, keep))} :
                    listed \in ScanOf(is_dir, files, scanOk) } :
            scanOk \in BOOLEAN }

CleanupCall(keep) ==
    \E r \in CleanupResults(isDir, dir, keep) :
       /\ dir' = r.res.dir
       /\ partial' = partial \cap r.res.dir
       /\ cl' = [ran |-> TRUE, keep |-> keep, before |-> dir, scanOk |-> r.scanOk,
                 locked |-> r.locked, deleted_count |-> r.res.deleted_count]

\* whether the cleanup left something undone
CleanupFailed(c) == ~c.scanOk \/ c.locked # {}

\* AfterCleanup with a failed cleanup failing the run
AfterCleanup_Fatal(failed) == IF failed THEN "failed" ELSE "notify"

\* where the run goes after the cleanup: its failures are only logged
AfterCleanup(failed) == "notify"

\* steps 10 and 11: run the history cleanup with the keep count read at the
\* start of the run, send the closing notification (its failure is only
\* logged) and return
Cleanup ==
    /\ pc = "cleanup"
    /\ CleanupCall(loc.keep_history_count)
    /\ IF AfterCleanup(CleanupFailed(cl')) = "notify"
       THEN ev' = ev \o <<"evict", "notify">> /\ Return("Succeeded", "none")
       ELSE ev' = Append(ev, "evict") /\ Return("Failed", "cleanup")
    /\ UNCHANGED <<today, cfg, isDir, runs, impl, loc, snap, prev, ad, call, inv, sched, setters>>

(***************************************************************************)
(* headless.run_daily_update: config, date, directory, fetch, file name.   *)
(***************************************************************************)
H_Load == impl = "headless" /\ LoadConfig("today")
H_CheckDate == impl = "headless" /\ CheckDate("ensure_dir")
H_EnsureDir == impl = "headless" /\ EnsureDir("fetch")
H_Fetch == impl = "headless" /\ Fetch("filename")

(***************************************************************************)
(* main.main, --headless branch: config, fetch, date, directory, file name.*)
(***************************************************************************)
M_Load == impl = "main" /\ LoadConfig("fetch")
M_Fetch == impl = "main" /\ Fetch("today")
M_CheckDate == impl = "main" /\ CheckDate("ensure_dir")
M_EnsureDir == impl = "main" /\ EnsureDir("filename")

Next ==
    \/ Tick
    \/ \E i \in {"headless", "main"} : StartRun(i)
    \/ H_Load \/ H_CheckDate \/ H_EnsureDir \/ H_Fetch \/ H_Download
    \/ M_Load \/ M_Fetch \/ M_CheckDate \/ M_EnsureDir \/ M_Download
    \/ Filename \/ Apply \/ SetState \/ Cleanup

Spec == Init /\ [][Next]_vars

(***************************************************************************)
(* The adapter on its own: set_gnome_wallpaper called with the path of a   *)
(* file that is or is not in the store, one step at a time.                *)
(***************************************************************************)
adapterFrame == <<today, cfg, isDir, dir, partial, runs, impl, pc, loc, ev, snap, out, prev, cl,
                  call, inv, sched, setters>>

\* a caller invokes set_gnome_wallpaper(image_path)
A_Start(image_path) ==
    /\ ad.state \in {"Idle", "Succeeded", "Failed"}
    /\ ad' \in StartResults(image_path, isDir /\ image_path \in dir)
    /\ UNCHANGED adapterFrame

A_Probe ==
    /\ ad.state = "ProbingEnvironment"
    /\ ad' \in ProbeResults(ad)
    /\ UNCHANGED adapterFrame

A_Build ==
    /\ ad.state = "BuildingCommandPlan"
    /\ ad' = BuildResult(ad)
    /\ UNCHANGED adapterFrame

A_Exec ==
    /\ ad.state = "Executing"
    /\ \E outcome \in RunOutcomes : ad' = ExecResult(ad, outcome)
    /\ UNCHANGED adapterFrame

\* A_Notify with a notification call that never returns
A_Notify_Blocks ==
    /\ ad.state = "Notifying"
    /\ UNCHANGED vars

A_Notify ==
    /\ ad.state = "Notifying"
    /\ ad' \in NotifyResults(ad)
    /\ UNCHANGED adapterFrame

InitAdapter ==
    /\ Init
    /\ cfg = NoConfigFile
    /\ isDir

NextAdapter ==
    \/ \E image_path \in InitNames : A_Start(image_path)
    \/ A_Probe \/ A_Build \/ A_Exec \/ A_Notify

SpecAdapter == InitAdapter /\ [][NextAdapter]_vars

\* the function is straight-line code around a loop over the plan, every
\* subprocess.run has a timeout (5 s for the probe, 10 s for a set command)
\* and a notification call returns or raises: an invocation that has started
\* takes its next step
SpecAdapterFair ==
    SpecAdapter /\ WF_vars(A_Probe) /\ WF_vars(A_Build) /\ WF_vars(A_Exec) /\ WF_vars(A_Notify)

(***************************************************************************)
(* The store on its own: cleanup_wallpaper_history(keep) called on a       *)
(* directory of recognized and other files.                                *)
(***************************************************************************)

\* a caller invokes cleanup_wallpaper_history(keep)
Evict(keep) ==
    /\ CleanupCall(keep)
    /\ UNCHANGED <<today, cfg, isDir, runs, impl, pc, loc, ev, snap, out, prev, ad, call, inv, sched, setters>>

InitStore ==
    /\ today = 1
    /\ cfg = NoConfigFile
    /\ isDir \in BOOLEAN
    /\ dir \in (IF isDir THEN SUBSET StoreNames ELSE {{}})
    /\ partial = {}
    /\ runs = 0
    /\ impl = "headless"
    /\ pc = "idle"
    /\ loc = LocInit
    /\ ev = <<>>
    /\ snap = [cfg |-> cfg, isDir |-> isDir, dir |-> dir, today |-> today]
    /\ out = NoOutcome
    /\ prev = [result |-> "none", cause |-> "none", day |-> 0]
    /\ ad = AdIdle
    /\ cl = NoCleanup
    /\ call = NoCall
    /\ inv = NoInvocations
    /\ sched = NoScheduler
    /\ setters = NoSetters

NextStore == \E keep \in 0..MaxKeep : Evict(keep)

SpecStore == InitStore /\ [][NextStore]_vars

(***************************************************************************)
(* Two daily updates at the same time (headless.run_daily_update, steps 6  *)
(* to 8): a timer-started one and a user-started one, say.  Both read the  *)
(* settings before either recorded today's date, were given the same       *)
(* image by the feed, and so derive the same path.  A step is one access   *)
(* to the file system.  The file at the path is of the invocation that     *)
(* created it (inv.inode, 0 for a file that was there before); an          *)
(* invocation writes to the file it opened (fd), which an unlink by the    *)
(* other takes from the directory.                                         *)
(***************************************************************************)
Invocations == {1, 2}

Other(p) == CHOOSE q \in Invocations : q # p

raceFrame == <<today, cfg, isDir, runs, impl, pc, loc, ev, snap, out, prev, ad, cl, call,
              sched, setters>>

\* an invocation that is about to check local_path.is_file()
InvStart == [pc |-> "is_file", fd |-> 0, saved |-> FALSE, applied |-> "none", hurt |-> "none"]

\* step 6: `if local_path.is_file()`: the image is taken for downloaded
R_IsFile(p) ==
    /\ inv.run[p].pc = "is_file"
    /\ inv' = [inv EXCEPT !.run[p].pc = IF BingDay1 \in dir THEN "apply" ELSE "request"]
    /\ UNCHANGED <<dir, partial>>
    /\ UNCHANGED raceFrame

\* download_image: the request and the validation of the bytes in memory
R_Request(p) ==
    /\ inv.run[p].pc = "request"
    /\ \E outcome \in {"ok", "RequestException", "empty", "invalid_image"} :
         inv' = [inv EXCEPT !.run[p].pc = IF outcome = "ok" THEN "open" ELSE "exists"]
    /\ UNCHANGED <<dir, partial>>
    /\ UNCHANGED raceFrame

\* download_image: open(save_path, 'wb') creates the file or truncates the
\* one at the path
R_Open(p) ==
    /\ inv.run[p].pc = "open"
    /\ \/ /\ dir' = dir \cup {BingDay1}
          /\ partial' = partial \cup {BingDay1}
          /\ inv' = [inv EXCEPT
                        !.inode = IF BingDay1 \in dir THEN @ ELSE p,
                        !.run[p].fd = IF BingDay1 \in dir THEN inv.inode ELSE p,
                        !.run[p].hurt = IF /\ BingDay1 \in dir \ partial
                                           /\ inv.run[Other(p)].saved
                                        THEN "truncated" ELSE @,
                        !.run[p].pc = "write"]
       \/ /\ inv' = [inv EXCEPT !.run[p].pc = "exists"]
          /\ UNCHANGED <<dir, partial>>
    /\ UNCHANGED raceFrame

\* download_image: f.write(image_bytes) and the close; all the bytes are in
\* the file the invocation opened, or the write raises OSError
R_Write(p) ==
    /\ inv.run[p].pc = "write"
    /\ \/ /\ partial' = IF BingDay1 \in dir /\ inv.inode = inv.run[p].fd
                         THEN partial \ {BingDay1} ELSE partial
          /\ inv' = [inv EXCEPT !.run[p].saved = TRUE, !.run[p].pc = "apply"]
       \/ /\ inv' = [inv EXCEPT !.run[p].pc = "exists"]
          /\ UNCHANGED partial
    /\ UNCHANGED dir
    /\ UNCHANGED raceFrame

\* step 7, after a failed download: `if local_path.exists(): local_path.unlink()`,
\* an OSError of which is passed over; the run returns False
R_Unlink(p) ==
    /\ inv.run[p].pc = "exists"
    /\ \E unlinkOk \in BOOLEAN :
         LET removed == BingDay1 \in dir /\ unlinkOk
         IN  /\ dir' = IF removed THEN dir \ {BingDay1} ELSE dir
             /\ partial' = IF removed THEN partial \ {BingDay1} ELSE partial
             /\ inv' = [inv EXCEPT
                           !.run[p].hurt = IF removed /\ inv.run[Other(p)].saved
                                           THEN "removed" ELSE @,
                           !.run[p].pc = "done"]
    /\ UNCHANGED raceFrame

\* step 8: set_gnome_wallpaper(local_path), on the file as it is then
R_Apply(p) ==
    /\ inv.run[p].pc = "apply"
    /\ inv' = [inv EXCEPT !.run[p].applied = IF BingDay1 \notin dir THEN "missing"
                                             ELSE IF BingDay1 \in partial THEN "truncated"
                                             ELSE "complete",
                          !.run[p].pc = "done"]
    /\ UNCHANGED <<dir, partial>>
    /\ UNCHANGED raceFrame

InitRace ==
    /\ today = 1
    /\ cfg = NoConfigFile
    /\ isDir = TRUE
    /\ dir \in SUBSET {BingOld, BingDay1}
    /\ partial = {}
    /\ runs = 0
    /\ impl = "headless"
    /\ pc = "idle"
    /\ loc = LocInit
    /\ ev = <<>>
    /\ snap = [cfg |-> cfg, isDir |-> isDir, dir |-> dir, today |-> today]
    /\ out = NoOutcome
    /\ prev = [result |-> "none", cause |-> "none", day |-> 0]
    /\ ad = AdIdle
    /\ cl = NoCleanup
    /\ call = NoCall
    /\ inv = [inode |-> 0, run |-> [p \in Invocations |-> InvStart]]
    /\ sched = NoScheduler
    /\ setters = NoSetters

NextRace ==
    \E p \in Invocations :
       R_IsFile(p) \/ R_Request(p) \/ R_Open(p) \/ R_Write(p) \/ R_Unlink(p) \/ R_Apply(p)

SpecRace == InitRace /\ [][NextRace]_vars

(***************************************************************************)
(* The namer and the history list on their own: one call of                *)
(* get_bing_filename, get_custom_filename, _parse_datetime_from_path or    *)
(* get_sorted_wallpaper_history, with its arguments drawn from the sets    *)
(* below.                                                                  *)
(***************************************************************************)
\* the largest max_items a call passes
MaxItems == 2

callFrame == <<today, cfg, isDir, dir, partial, runs, impl, pc, loc, ev, snap, out, prev, ad, cl,
               inv, sched, setters>>

\* a date as the feed gives it (YYYYMMDD), as an ISO date, and as an ISO
\* date and time
DateForms == {"compact", "iso", "iso_time"}

DateStr(dt, form) ==
    IF form = "compact" THEN StartDate(dt)
    ELSE IF form = "iso" THEN IsoFormat(dt)
    ELSE IsoFormat(dt) \o <<"T", "0", "7", ":", "3", "0">>

\* image URLs put together from a location and path, an extension as written
\* (raw) with its lower-case form (low), and a query; and the URL urlparse
\* rejects
UrlInputs ==
    {[url |-> b \o e.raw \o q, low |-> e.low, wellformed |-> TRUE] :
        b \in {<<"/", "/", "b", "/", "i">>, <<"/", "/", "b", "/", "a", ".", "b", "/", "i">>},
        e \in {[raw |-> <<>>, low |-> <<>>],
               [raw |-> <<".", "j", "p", "g">>, low |-> <<".", "j", "p", "g">>],
               [raw |-> <<".", "J", "P", "G">>, low |-> <<".", "j", "p", "g">>],
               [raw |-> <<".", "P", "n", "g">>, low |-> <<".", "p", "n", "g">>]},
        q \in {<<>>, <<"?", "i", "d", "=", "a", ".", "p", "n", "g">>}}
    \cup {[url |-> UrlBad, low |-> <<>>, wellformed |-> FALSE]}

\* which of the two patterns a recognized name matched
KindOf(name) ==
    IF parse_datetime_from_path(name) = NoMatch THEN "none"
    ELSE IF BingMatch(name) THEN "Scheduled" ELSE "Custom"

\* a caller invokes get_bing_filename(date_str, image_url) and parses the
\* name it got
NameScheduled ==
    /\ call.op = "none"
    /\ \E d \in 0..MaxDay, form \in DateForms, u \in UrlInputs :
         LET filename == get_bing_filename(DateStr(DateOf(d), form), u.url)
         IN  call' = [op |-> "get_bing_filename", day |-> d, date_str |-> DateStr(DateOf(d), form),
                      image_url |-> u.url, low |-> u.low, wellformed |-> u.wellformed,
                      result |-> filename,
                      parsed |-> parse_datetime_from_path(filename),
                      kind |-> KindOf(filename)]
    /\ UNCHANGED callFrame

\* extensions a caller passes to get_custom_filename: none, or letters in
\* some case with or without the leading dot
CustomExts == {[raw |-> <<>>, low |-> DotJpg]} \cup
              {[raw |-> dot \o e.raw, low |-> <<".">> \o e.low] :
                  dot \in {<<>>, <<".">>},
                  e \in {[raw |-> <<"p", "n", "g">>, low |-> <<"p", "n", "g">>],
                         [raw |-> <<"P", "N", "G">>, low |-> <<"p", "n", "g">>],
                         [raw |-> <<"J", "p", "g">>, low |-> <<"j", "p", "g">>]}}

\* the times of day a custom image is saved at
Clock == {[h |-> 0, mi |-> 0, s |-> 0], [h |-> 9, mi |-> 5, s |-> 0],
          [h |-> 9, mi |-> 5, s |-> 1], [h |-> 23, mi |-> 59, s |-> 59]}

\* the moments datetime.now() returns: a day and a time of day
Moments == {[day |-> d, time |-> t] : d \in 0..MaxDay, t \in Clock}

\* the seconds of the day gone by at the time t
SecondOfDay(t) == (t.h * 60 + t.mi) * 60 + t.s

\* the moment a is not after the moment b
NotAfter(a, b) ==
    a.day < b.day \/ (a.day = b.day /\ SecondOfDay(a.time) <= SecondOfDay(b.time))

\* a caller invokes get_custom_filename(extension)
NameCustom ==
    /\ call.op = "none"
    /\ \E e \in CustomExts, d \in 0..MaxDay, t \in Clock :
         LET filename == get_custom_filename(e.raw, DateOf(d), t.h, t.mi, t.s)
         IN  call' = [op |-> "get_custom_filename", extension |-> e.raw, low |-> e.low,
                      day |-> d, time |-> t, result |-> filename,
                      parsed |-> parse_datetime_from_path(filename),
                      kind |-> KindOf(filename)]
    /\ UNCHANGED callFrame

\* a caller invokes get_custom_filename(extension) at one moment and again at
\* the same or a later one
NameCustomTwice ==
    /\ call.op = "none"
    /\ \E e \in CustomExts, first \in Moments, second \in Moments :
         /\ NotAfter(first, second)
         /\ call' = [op |-> "get_custom_filename_twice", extension |-> e.raw,
                      first |-> first, second |-> second,
                      results |-> <<get_custom_filename(e.raw, DateOf(first.day),
                                        first.time.h, first.time.mi, first.time.s),
                                    get_custom_filename(e.raw, DateOf(second.day),
                                        second.time.h, second.time.mi, second.time.s)>>]
    /\ UNCHANGED callFrame

\* bing_20240230.jpg: 30 February
BingFeb30 == <<"b", "i", "n", "g", "_", "2", "0", "2", "4", "0", "2", "3", "0", ".", "j", "p", "g">>
\* custom_20240501_250000.jpg: hour 25
CustomHour25 == <<"c", "u", "s", "t", "o", "m", "_", "2", "0", "2", "4", "0", "5", "0", "1", "_", "2", "5", "0", "0", "0", "0", ".", "j", "p", "g">>
\* custom_20240501_000000.jpg: a custom image saved at midnight of day 1
CustomMidnight == <<"c", "u", "s", "t", "o", "m", "_", "2", "0", "2", "4", "0", "5", "0", "1", "_", "0", "0", "0", "0", "0", "0", ".", "j", "p", "g">>

\* the names a caller of the parse passes: names the namer produces, and names
\* that differ from them in the prefix, the digits or the extension
ParseNames ==
    {BingOld, BingDay1, BingDay1Png, CustomDay1, CustomMidnight, OtherFile, BingBadDate,
     BingFeb30, CustomHour25,
     \* wallpaper.png: a name of neither form
     <<"w", "a", "l", "l", "p", "a", "p", "e", "r", ".", "p", "n", "g">>,
     \* bing_2024.jpg: four digits for eight
     <<"b", "i", "n", "g", "_", "2", "0", "2", "4", ".", "j", "p", "g">>,
     \* bing_202405011.jpg: nine digits for eight
     <<"b", "i", "n", "g", "_", "2", "0", "2", "4", "0", "5", "0", "1", "1", ".", "j", "p", "g">>,
     \* bing_20240501: no extension
     <<"b", "i", "n", "g", "_", "2", "0", "2", "4", "0", "5", "0", "1">>,
     \* bing_20240501.: a dot and nothing after it
     <<"b", "i", "n", "g", "_", "2", "0", "2", "4", "0", "5", "0", "1", ".">>,
     \* bing_20240501.jpg.bak: two extensions
     <<"b", "i", "n", "g", "_", "2", "0", "2", "4", "0", "5", "0", "1", ".", "j", "p", "g", ".", "b", "a", "k">>,
     \* bong_20240501.jpg: another prefix
     <<"b", "o", "n", "g", "_", "2", "0", "2", "4", "0", "5", "0", "1", ".", "j", "p", "g">>,
     \* bing_20240229.jpg: 29 February of a leap year
     <<"b", "i", "n", "g", "_", "2", "0", "2", "4", "0", "2", "2", "9", ".", "j", "p", "g">>,
     \* custom_20240501_0900.jpg: four digits of time for six
     <<"c", "u", "s", "t", "o", "m", "_", "2", "0", "2", "4", "0", "5", "0", "1", "_", "0", "9", "0", "0", ".", "j", "p", "g">>}

\* a caller invokes _parse_datetime_from_path(file_path)
Parse ==
    /\ call.op = "none"
    /\ \E name \in ParseNames :
         call' = [op |-> "parse", name |-> name,
                  result |-> parse_datetime_from_path(name), kind |-> KindOf(name)]
    /\ UNCHANGED callFrame

\* the entries the wallpaper directory can hold: three artifacts of one
\* timestamp, an older one, a file whose name holds no date, and a directory
\* (is_file FALSE) with an artifact's name
EntryPool == {[name |-> n, is_file |-> TRUE] :
                 n \in {BingOld, BingDay1, BingDay1Png, CustomMidnight, BingBadDate}}
             \cup {[name |-> CustomDay1, is_file |-> FALSE]}

\* a caller invokes get_sorted_wallpaper_history(max_items); the scan
\* enumerates the entries in some order
List ==
    /\ call.op = "none"
    /\ \E entries \in SUBSET EntryPool, is_dir \in BOOLEAN, scanOk \in BOOLEAN,
          max_items \in 0..MaxItems :
         \E order \in Orders(entries) :
            call' = [op |-> "list", entries |-> entries, is_dir |-> is_dir, scanOk |-> scanOk,
                     max_items |-> max_items,
                     result |-> get_sorted_wallpaper_history(is_dir, order, scanOk, max_items)]
    /\ UNCHANGED callFrame

\* a caller invokes download_image(url, save_path) on a directory that holds
\* some files, complete or truncated, with save_path among them or not
Download ==
    /\ call.op = "none"
    /\ \E files \in SUBSET {BingOld, BingDay1}, save_path \in {BingDay1, CustomDay1},
          outcome \in DownloadOutcomes :
         \E part \in SUBSET files :
            call' = [op |-> "download_image", files |-> files, part |-> part,
                     save_path |-> save_path, outcome |-> outcome,
                     result |-> download_image(files, part, save_path, outcome)]
    /\ UNCHANGED callFrame

\* what the keep_history entry of the config file can hold: a count, or text
\* that int() does not accept
KeepTexts == {[is_int |-> TRUE, value |-> k] : k \in 0..MaxKeep}
             \cup {[is_int |-> FALSE, value |-> 0]}

\* save_custom_wallpaper(source_path) from the copy on: the copy to dest_path,
\* int() of the keep_history text, the cleanup, and the return value; None is
\* returned when the copy or int() raises
save_custom_wallpaper(files, dest_path, copyOk, keep_text, all_history_files, locked) ==
    IF ~copyOk THEN [result |-> NoPath, dir |-> files]
    ELSE IF ~keep_text.is_int THEN [result |-> NoPath, dir |-> files \cup {dest_path}]
    ELSE [result |-> dest_path,
          dir |-> cleanup_wallpaper_history(files \cup {dest_path}, all_history_files,
                                            keep_text.value, locked).dir]

\* a caller invokes save_custom_wallpaper(source_path) at some moment on a
\* directory that holds some artifacts; the call returns early when the
\* directory cannot be made or the source is no file, and the cleanup's scan
\* enumerates the directory in some order and may fail, and files may be locked
SaveCustom ==
    /\ call.op = "none"
    /\ \E files \in SUBSET {BingOld, BingDay1, CustomDay1}, now \in Moments,
          keep_text \in KeepTexts :
         LET dest_path == get_custom_filename(DotJpg, DateOf(now.day),
                                              now.time.h, now.time.mi, now.time.s)
             scans == {get_sorted_wallpaper_history(TRUE, order, TRUE, AllItems) :
                          order \in Orders(RegularFiles(files \cup {dest_path}))} \cup {<<>>}
             early == [result |-> NoPath, dir |-> files]
             results ==
                 {early, save_custom_wallpaper(files, dest_path, FALSE, keep_text, <<>>, {})}
                 \cup UNION {{save_custom_wallpaper(files, dest_path, TRUE, keep_text,
                                                    listed, locked) :
                                 locked \in SUBSET Range(files_to_delete(listed,
                                                                         keep_text.value))} :
                             listed \in scans}
         IN  \E r \in results :
                call' = [op |-> "save_custom_wallpaper", files |-> files,
                         now |-> now, keep_text |-> keep_text, dest_path |-> dest_path,
                         result |-> r.result, dir |-> r.dir]
    /\ UNCHANGED callFrame

InitCalls == InitStore /\ isDir /\ dir = {}

NextCalls ==
    NameScheduled \/ NameCustom \/ NameCustomTwice \/ Parse \/ List \/ Download \/ SaveCustom

SpecCalls == InitCalls /\ [][NextCalls]_vars

(***************************************************************************)
(* The window and the command line (ui/main_window.py, main.py) with the   *)
(* scheduler (services/manager.py): the daily-update checkbox, the         *)
(* uninstall button, the internal set-config command, and two set_setting  *)
(* calls made by two processes at the same time.                           *)
(***************************************************************************)
UnitFiles == {"chromadesk-daily.service", "chromadesk-daily.timer"}

\* the processes that call set_setting: the window, when the region is
\* changed, and the timer's daily update, when it records the day
SetterProcs == {"window", "timer"}

\* the key each of them sets, and the values it sets it to: a region of the
\* dropdown, the date of the day of a run
SetterKey(p) == IF p = "window" THEN "region" ELSE "last_update_date"
SetterValues(p) == IF p = "window" THEN {"de-DE", "ja-JP"}
                   ELSE {IsoFormat(DateOf(d)) : d \in 1..MaxDay}

SetterIdle == [pc |-> "idle", saved |-> FALSE, value |-> <<>>, config |-> DEFAULT_SETTINGS]

deskFrame == <<today, isDir, dir, partial, runs, impl, pc, loc, ev, snap, out, prev, ad, cl, inv>>

\* set_setting, first half: load_config() reads the file, creating it when
\* it is missing, and the key is set in memory
S_Load(p) ==
    /\ setters[p].pc = "idle"
    /\ \E value \in SetterValues(p), createOk \in BOOLEAN :
         LET loaded == load_config(cfg, createOk)
         IN  /\ cfg' = loaded.file
             /\ setters' = [setters EXCEPT ![p] =
                               [pc |-> "loaded", saved |-> FALSE, value |-> value,
                                config |-> [loaded.mem EXCEPT ![SetterKey(p)] = value]]]
    /\ UNCHANGED <<call, sched>>
    /\ UNCHANGED deskFrame

\* set_setting, second half: save_config(config) rewrites the whole file
\* from the configuration in memory
S_Save(p) ==
    /\ setters[p].pc = "loaded"
    /\ \E saveOk \in BOOLEAN :
         LET saved == save_config(cfg, setters[p].config, saveOk)
         IN  /\ cfg' = saved.file
             /\ setters' = [setters EXCEPT ![p].pc = "done", ![p].saved = saved.ok]
    /\ UNCHANGED <<call, sched>>
    /\ UNCHANGED deskFrame

\* the call has returned; the process can make another
S_Return(p) ==
    /\ setters[p].pc = "done"
    /\ setters' = [setters EXCEPT ![p] = SetterIdle]
    /\ UNCHANGED <<cfg, call, sched>>
    /\ UNCHANGED deskFrame

\* what can go wrong in create_unit_files(): no command for ExecStart can
\* be determined, the systemd directory cannot be made, the service file or
\* the timer file cannot be written, daemon-reload fails
CreateOutcomes == {"ok", "no_command", "mkdir", "service_write", "timer_write", "reload"}

\* create_unit_files(): the command for ExecStart is determined, which
\* outside an AppImage reads the configuration with get_setting and so
\* creates a missing config file; then the service file is written, then the
\* timer file, then the daemon is reloaded
create_unit_files(s, file, appimage, createOk, outcome) ==
    LET written == IF outcome \in {"no_command", "mkdir", "service_write"} THEN {}
                   ELSE IF outcome = "timer_write" THEN {"chromadesk-daily.service"}
                   ELSE UnitFiles
        reloads == IF outcome \in {"ok", "reload"}
                   THEN <<[cmd |-> "daemon-reload", units |-> s.units \cup written]>> ELSE <<>>
    IN  [ok |-> outcome = "ok",
         file |-> IF appimage THEN file ELSE load_config(file, createOk).file,
         sched |-> [s EXCEPT !.units = @ \cup written, !.issued = @ \o reloads]]

\* enable_timer without create_unit_files()
enable_timer_NoUnitFiles(s, file, appimage, createOk, outcome, enableOk) ==
    [ok |-> enableOk, file |-> file,
     sched |-> [s EXCEPT !.issued = Append(@, [cmd |-> "enable", units |-> s.units]),
                         !.timer_enabled = IF enableOk THEN TRUE ELSE @]]

\* enable_timer(): create the unit files and, when that worked, run
\* systemctl enable --now
enable_timer(s, file, appimage, createOk, outcome, enableOk) ==
    LET created == create_unit_files(s, file, appimage, createOk, outcome)
    IN  IF ~created.ok THEN [ok |-> FALSE, file |-> created.file, sched |-> created.sched]
        ELSE [ok |-> enableOk, file |-> created.file,
              sched |-> [created.sched EXCEPT
                            !.issued = Append(@, [cmd |-> "enable", units |-> created.sched.units]),
                            !.timer_enabled = IF enableOk THEN TRUE ELSE @]]

\* how a systemctl command run without check=True can end: exit status 0, a
\* non-zero exit status, or no result (systemctl missing, or a timeout)
DisableOutcomes == {"ok", "nonzero", "none"}

\* disable_timer(): run systemctl disable --now; it reports success
\* whenever the command ran, whatever its exit status
disable_timer(s, outcome) ==
    [ok |-> outcome # "none",
     sched |-> [s EXCEPT !.issued = Append(@, [cmd |-> "disable", units |-> s.units]),
                         !.timer_enabled = IF outcome = "ok" THEN FALSE ELSE @]]

\* FlagWritten with the flag written whatever the scheduler reported
FlagWritten_Always(success, raised) == TRUE

\* whether on_daily_update_toggled calls set_setting for the enabled flag
FlagWritten(success, raised) == success /\ ~raised

\* on_daily_update_toggled(state): enable or disable the timer, and write
\* the enabled flag when that succeeded; raised is an exception out of the
\* manager's function
ToggleDaily(enable) ==
    /\ LET start == [sched EXCEPT !.issued = <<>>]
           returned ==
               IF enable
               THEN {enable_timer(start, cfg, appimage, createOk, outcome, enableOk) :
                        appimage \in BOOLEAN, createOk \in BOOLEAN,
                        outcome \in CreateOutcomes, enableOk \in BOOLEAN}
               ELSE {[ok |-> d.ok, file |-> cfg, sched |-> d.sched] :
                        d \in {disable_timer(start, outcome) : outcome \in DisableOutcomes}}
           ends == {[ok |-> r.ok, file |-> r.file, sched |-> r.sched, raised |-> FALSE] :
                       r \in returned}
                   \cup {[ok |-> FALSE, file |-> cfg, sched |-> start, raised |-> TRUE]}
       IN  \E r \in ends, createOk \in BOOLEAN, saveOk \in BOOLEAN :
              LET w == IF FlagWritten(r.ok, r.raised)
                       THEN set_setting(r.file, "enabled", enable, createOk, saveOk)
                       ELSE [file |-> r.file, saved |-> FALSE, ret |-> "None"]
              IN  /\ sched' = r.sched
                  /\ cfg' = w.file
                  /\ call' = [op |-> "on_daily_update_toggled", enable |-> enable,
                               success |-> r.ok, raised |-> r.raised, saved |-> w.saved,
                               before |-> cfg.enabled, after |-> w.file.enabled]
    /\ UNCHANGED setters
    /\ UNCHANGED deskFrame

\* the exit status main() returns for --internal-set-config: 0 when what
\* set_setting returned is true
ExitStatus(ret) == IF ret \notin {"None", "False"} THEN 0 ELSE 1

\* main() with --internal-set-config section key value
SetConfig(key, value) ==
    /\ \E dirOk \in BOOLEAN, createOk \in BOOLEAN, saveOk \in BOOLEAN :
         IF ~dirOk \/ (~cfg.exists /\ ~createOk)
         THEN /\ cfg' = cfg
              /\ call' = [op |-> "set-config", key |-> key, value |-> value,
                           written |-> FALSE, status |-> 1]
         ELSE LET r == set_setting(cfg, key, value, createOk, saveOk)
              IN  /\ cfg' = r.file
                  /\ call' = [op |-> "set-config", key |-> key, value |-> value,
                               written |-> r.saved, status |-> ExitStatus(r.ret)]
    /\ UNCHANGED <<sched, setters>>
    /\ UNCHANGED deskFrame

\* Removed with the wallpaper directory emptied as well
Removed_WithArtifacts(files) == {}

\* what on_uninstall_clicked leaves of the wallpaper directory
Removed(files) == files

\* remove_service_files(): unlink each unit file that is there; locked holds
\* the files whose unlink raises OSError
remove_service_files(s, locked) ==
    LET all_removed == s.units \cap locked = {}
        reloads == IF s.units # {} /\ all_removed
                   THEN <<[cmd |-> "daemon-reload", units |-> {}]>> ELSE <<>>
    IN  [ok |-> all_removed,
         sched |-> [s EXCEPT !.units = @ \cap locked, !.issued = @ \o reloads]]

\* delete_config_file(): unlink the config file when it is there
delete_config_file(file, unlinkOk) ==
    IF ~file.exists THEN [ok |-> TRUE, file |-> file]
    ELSE IF unlinkOk THEN [ok |-> TRUE, file |-> NoConfigFile]
    ELSE [ok |-> FALSE, file |-> file]

\* on_uninstall_clicked(), confirmed: disable the timer, remove the unit
\* files, delete the config file; every failure is collected and reported
Uninstall ==
    /\ \E disabled \in DisableOutcomes, locked \in SUBSET UnitFiles, unlinkOk \in BOOLEAN :
         LET d == disable_timer([sched EXCEPT !.issued = <<>>], disabled)
             r == remove_service_files(d.sched, locked)
             c == delete_config_file(cfg, unlinkOk)
         IN  /\ sched' = r.sched
             /\ cfg' = c.file
             /\ dir' = Removed(dir)
             /\ partial' = partial \cap dir'
             /\ call' = [op |-> "on_uninstall_clicked",
                          errors |-> (IF r.ok THEN {} ELSE {"units"})
                                       \cup (IF c.ok THEN {} ELSE {"config"}),
                          units_before |-> sched.units, config_before |-> cfg.exists,
                          dir_before |-> dir, dir_after |-> dir']
    /\ UNCHANGED <<today, isDir, runs, impl, pc, loc, ev, snap, out, prev, ad, cl, inv, setters>>

\* a fresh installation: the config file missing or holding the defaults, no
\* unit files, and some artifacts in the wallpaper directory
InitDesk ==
    /\ today = 1
    /\ cfg \in {NoConfigFile, FileOf(DEFAULT_SETTINGS)}
    /\ isDir = TRUE
    /\ dir = InitNames
    /\ partial = {}
    /\ runs = 0
    /\ impl = "headless"
    /\ pc = "idle"
    /\ loc = LocInit
    /\ ev = <<>>
    /\ snap = [cfg |-> cfg, isDir |-> isDir, dir |-> dir, today |-> today]
    /\ out = NoOutcome
    /\ prev = [result |-> "none", cause |-> "none", day |-> 0]
    /\ ad = AdIdle
    /\ cl = NoCleanup
    /\ call = NoCall
    /\ inv = NoInvocations
    /\ sched = NoScheduler
    /\ setters = [p \in SetterProcs |-> SetterIdle]

NextDesk ==
    \/ \E enable \in BOOLEAN : ToggleDaily(enable)
    \/ SetConfig("region", "de-DE")
    \/ Uninstall

SpecDesk == InitDesk /\ [][NextDesk]_vars

\* the two processes on their own, each calling set_setting again and again
NextSetters == \E p \in SetterProcs : S_Load(p) \/ S_Save(p) \/ S_Return(p)

SpecSetters == InitDesk /\ [][NextSetters]_vars

(***************************************************************************)
(* Properties.                                                             *)
(***************************************************************************)
\* the current run did e
Did(e) == \E i \in 1..Len(ev) : ev[i] = e

\* the current run has returned
Finished == pc = "idle" /\ out.result # "none"

NetworkEvents == {"fetch", "download"}
WriteEvents == {"cfg_write", "mkdir", "file_write", "unlink", "set_state", "evict"}

\* the recognized artifacts among a set of files
Artifacts(files) == {n \in files : Recognized(n)}

\* C1: a daily update that runs, with enabled = true, on the day on which the
\* run before it succeeded returns Skipped and makes no network request and
\* no file-system write.
C1_SecondRunSkips ==
    (/\ Finished
     /\ prev.result = "Succeeded"
     /\ prev.day = snap.today
     /\ snap.cfg.enabled)
    => (/\ out.result = "Skipped"
        /\ \A e \in NetworkEvents \cup WriteEvents : ~Did(e))

\* the keep newest artifacts are what the cleanup left
KeptNewest(before, after, keep) ==
    /\ Cardinality(Artifacts(after)) = keep
    /\ \A x \in Artifacts(before) \ after, y \in Artifacts(after) :
          NotOlder(parse_datetime_from_path(y), parse_datetime_from_path(x))

\* the cleanup removed nothing and returned 0
RemovedNothing == dir = cl.before /\ cl.deleted_count = 0

\* C2 as stated: after evict(keep) on N recognized artifacts, exactly keep
\* remain and they are the keep most recent if N > keep, and nothing is
\* removed and 0 is returned if N <= keep.
C2_EvictExact ==
    cl.ran =>
       IF Cardinality(Artifacts(cl.before)) > cl.keep
       THEN KeptNewest(cl.before, dir, cl.keep)
       ELSE RemovedNothing

\* C2 amended: the same, provided the scan of the directory and every
\* deletion succeed; in every case only artifacts beyond the keep most
\* recent are removed and the returned count is the number removed.
C2_EvictExactUnlessFailure ==
    cl.ran =>
       /\ dir \subseteq cl.before
       /\ cl.deleted_count = Cardinality(cl.before \ dir)
       /\ cl.before \ dir \subseteq Artifacts(cl.before)
       /\ \A x \in cl.before \ dir :
             Cardinality({y \in Artifacts(cl.before) \ {x} :
                 NotOlder(parse_datetime_from_path(y), parse_datetime_from_path(x))}) >= cl.keep
       /\ IF Cardinality(Artifacts(cl.before)) > cl.keep
          THEN ~CleanupFailed(cl) => KeptNewest(cl.before, dir, cl.keep)
          ELSE RemovedNothing

C2_Witness ==
    /\ cl.ran
    /\ ~CleanupFailed(cl)
    /\ cl.keep = 1
    /\ Cardinality(Artifacts(cl.before)) = 3
    /\ cl.deleted_count = 2

\* C3: the command plan holds exactly 2 commands in an x11 session and
\* exactly 3 when the session is not x11 and the dark-variant key is present.
C3_PlanSize ==
    (ad.state = "Executing") =>
       /\ ad.session_type = "x11" => Len(ad.commands_to_run) = 2
       /\ (ad.session_type # "x11" /\ ad.should_set_dark_uri) => Len(ad.commands_to_run) = 3

\* C4: the commands are issued in the plan's order; a command that fails is
\* the last one issued and makes the apply fail; and once the command that
\* sets the primary URI has failed no dark-variant command is issued.
C4_StopsAtFirstFailure ==
    /\ \A i \in 1..Len(ad.issued) :
          /\ ad.issued[i].cmd = ad.commands_to_run[((i - 1) \div RunsPerCommand) + 1]
          /\ ad.issued[i].outcome # "ok" =>
                /\ i = Len(ad.issued)
                /\ ~ad.success
                /\ ad.state \in {"Notifying", "Failed"}
    /\ (\E i \in 1..Len(ad.issued) :
           ad.issued[i].cmd.key = KEY_PICTURE_URI /\ ad.issued[i].outcome # "ok")
       => \A j \in 1..Len(ad.issued) : ad.issued[j].cmd.key # KEY_PICTURE_URI_DARK
    /\ ad.state = "Succeeded" =>
          /\ Len(ad.issued) = RunsPerCommand * Len(ad.commands_to_run)
          /\ \A i \in 1..Len(ad.issued) : ad.issued[i].outcome = "ok"

C4_Witness ==
    /\ ad.state = "Failed"
    /\ ad.should_set_dark_uri
    /\ ad.issued # <<>>
    /\ ad.issued[Len(ad.issued)].cmd.key = KEY_PICTURE_URI
    /\ ad.issued[Len(ad.issued)].outcome = "CalledProcessError"

\* C5: a run that returns Failed because the download or the apply failed
\* leaves the persisted last_update_date as it was, different from the run's
\* day; and no run is skipped as already updated on a day on which the run
\* before it failed.
C5_FailureKeepsLastApplied ==
    /\ (Finished /\ out.result = "Failed" /\ out.cause \in {"download", "apply"})
       => /\ cfg.last_update_date = snap.cfg.last_update_date
          /\ cfg.last_update_date # loc.today_str
    /\ (Finished /\ out.cause = "already")
       => ~(prev.result = "Failed" /\ prev.cause \in {"download", "apply"}
            /\ prev.day = snap.today)

C5_Witness ==
    /\ Finished
    /\ out.result = "Failed"
    /\ out.cause = "apply"
    /\ prev.result = "Failed"
    /\ prev.cause = "download"
    /\ prev.day = snap.today

\* the run applied, then recorded the date, then ran the cleanup
AppliedRecordedEvicted ==
    \E i, j, k \in 1..Len(ev) :
       i < j /\ j < k /\ ev[i] = "apply" /\ ev[j] = "set_state" /\ ev[k] = "evict"

\* C6 as stated: when the run returns Succeeded after applying, the persisted
\* last_update_date is the run's day, and the cleanup ran after the date was
\* recorded and after the apply.
C6_SuccessRecordsToday ==
    (Finished /\ out.result = "Succeeded")
    => (cfg.last_update_date = loc.today_str /\ AppliedRecordedEvicted)

\* C6 amended: the persisted last_update_date is the run's day if the config
\* file could be written and is what it was otherwise; the cleanup ran after
\* the attempt to record the date and after the apply.
C6_SuccessRecordsTodayIfSaved ==
    (Finished /\ out.result = "Succeeded")
    => /\ loc.saved => cfg.last_update_date = loc.today_str
       /\ ~loc.saved => cfg.last_update_date = snap.cfg.last_update_date
       /\ AppliedRecordedEvicted

C6_Witness ==
    /\ Finished
    /\ out.result = "Succeeded"
    /\ loc.saved
    /\ cfg.last_update_date = loc.today_str
    /\ snap.cfg.last_update_date # loc.today_str
    /\ cl.ran

\* C7 as stated: a run whose fetch fails returns Failed, leaves the persisted
\* settings and the artifact directory as they were, and attempts no
\* download, apply or eviction.
C7_FetchFailureMutatesNothing ==
    (Finished /\ out.cause = "fetch")
    => /\ out.result = "Failed"
       /\ cfg = snap.cfg
       /\ isDir = snap.isDir /\ dir = snap.dir
       /\ ~Did("download") /\ ~Did("apply") /\ ~Did("evict") /\ ~Did("set_state")

\* C7 amended: the same, except that run_daily_update has created the
\* artifact directory, empty, if it was missing.
C7_FetchFailureKeepsSettingsAndFiles ==
    (Finished /\ out.cause = "fetch")
    => /\ out.result = "Failed"
       /\ cfg = snap.cfg
       /\ dir = snap.dir
       /\ isDir # snap.isDir => (impl = "headless" /\ isDir /\ dir = {})
       /\ ~Did("download") /\ ~Did("apply") /\ ~Did("evict") /\ ~Did("set_state")

C7_Witness ==
    /\ Finished
    /\ out.cause = "fetch"
    /\ out.result = "Failed"
    /\ snap.dir # {}
    /\ snap.cfg.last_update_date # <<>>

C9_NoDownloadIfStored ==
    loc.local_path # NoPath =>
       /\ loc.local_path \in snap.dir => (~Did("download") /\ pc # "download")
       /\ Did("download") => loc.local_path \notin snap.dir
       /\ (loc.local_path \notin snap.dir /\ Did("apply")) => Did("download")
       /\ Did("apply") => loc.applied = loc.local_path

C9_Witness ==
    /\ Finished
    /\ out.result = "Succeeded"
    /\ loc.local_path \in snap.dir
    /\ loc.applied = loc.local_path
    /\ ~Did("download")

\* C10: a run whose cleanup fails (the scan fails or a file cannot be
\* deleted) still returns Succeeded, and the last_update_date it saved stays
\* the run's day.
C10_EvictionFailureIsNotFatal ==
    (Finished /\ cl.ran /\ CleanupFailed(cl))
    => /\ out.result = "Succeeded"
       /\ loc.saved => cfg.last_update_date = loc.today_str

C10_Witness ==
    /\ Finished
    /\ cl.ran
    /\ cl.locked # {}
    /\ loc.saved
    /\ out.result = "Succeeded"

\* C11: in a cleanup whose scan succeeded and found more than keep artifacts,
\* the files it could not delete are still there, every other artifact
\* beyond the keep it keeps is gone, and the count it returns is the number of
\* files removed.
C11_DeletionFailureIsolated ==
    (cl.ran /\ cl.scanOk /\ isDir /\ Cardinality(Artifacts(cl.before)) > cl.keep)
    => LET removed == cl.before \ dir
       IN  /\ cl.locked \subseteq dir
           /\ removed \cap cl.locked = {}
           /\ Cardinality(Artifacts(cl.before) \ (removed \cup cl.locked)) = cl.keep
           /\ cl.deleted_count = Cardinality(removed)

C11_Witness ==
    /\ cl.ran
    /\ cl.scanOk
    /\ cl.keep = 1
    /\ Cardinality(Artifacts(cl.before)) = 4
    /\ Cardinality(cl.locked) = 1
    /\ cl.deleted_count = 2

\* C12: a cleanup leaves every file whose name parse does not recognize where
\* it is, whatever the keep count and whatever else the directory holds.
C12_UnrecognizedNeverDeleted ==
    cl.ran =>
       /\ {n \in cl.before : ~Recognized(n)} = {n \in dir : ~Recognized(n)}
       /\ cl.before \cap ForeignNames \subseteq dir

C12_Witness ==
    /\ cl.ran
    /\ cl.keep = 0
    /\ ForeignNames \subseteq cl.before
    /\ dir = ForeignNames
    /\ cl.deleted_count = 4

\* whether s ends with e
EndsWith(s, e) == Len(s) >= Len(e) /\ SubSeq(s, Len(s) - Len(e) + 1, Len(s)) = e

\* the names of the entries of a call of the list that are regular files
FileNames(entries) == {e.name : e \in {x \in entries : x.is_file}}

\* C13: the list holds at most max_items names, each the name of a regular
\* file that parse recognizes; entries that are no files or that parse does
\* not recognize are skipped, the scan going on to list the others.
C13_ListBoundedAndRecognized ==
    (call.op = "list") =>
       /\ Len(call.result) <= call.max_items
       /\ \A i \in 1..Len(call.result) :
             /\ call.result[i] \in FileNames(call.entries)
             /\ Recognized(call.result[i])
             /\ call.result[i] \notin ForeignNames
       /\ (call.is_dir /\ call.scanOk) =>
             LET n == Cardinality(Artifacts(FileNames(call.entries)))
             IN  Len(call.result) = IF n < call.max_items THEN n ELSE call.max_items

C13_Witness ==
    /\ call.op = "list"
    /\ call.is_dir /\ call.scanOk
    /\ [name |-> CustomDay1, is_file |-> FALSE] \in call.entries
    /\ BingBadDate \in FileNames(call.entries)
    /\ Cardinality(Artifacts(FileNames(call.entries))) = 3
    /\ call.max_items = 2
    /\ Len(call.result) = 2

\* C14: the list is ordered newest first by parsed timestamp, and no
\* recognized file it leaves out is newer than one it holds.
C14_ListNewestFirst ==
    (call.op = "list") =>
       /\ \A i, j \in 1..Len(call.result) :
             i < j => NotOlder(parse_datetime_from_path(call.result[i]),
                               parse_datetime_from_path(call.result[j]))
       /\ \A x \in Artifacts(FileNames(call.entries)) \ Range(call.result) :
             \A i \in 1..Len(call.result) :
                NotOlder(parse_datetime_from_path(call.result[i]), parse_datetime_from_path(x))

C14_Witness ==
    /\ call.op = "list"
    /\ BingOld \in FileNames(call.entries)
    /\ Len(call.result) = 2
    /\ call.result[2] = BingOld
    /\ call.result[1] = CustomMidnight

\* C15: for the entries a call of the list found, every order in which the
\* scan can enumerate them gives the list the call returned.
C15_TiesDeterministic ==
    (call.op = "list") =>
       \A order \in Orders(call.entries) :
          get_sorted_wallpaper_history(call.is_dir, order, call.scanOk, call.max_items)
             = call.result

\* the datetime at the start of day d of the clock
StartOfDay(d) == DateTimeKey(DateOf(d).y, DateOf(d).m, DateOf(d).d, 0, 0, 0)

\* C16: the name get_bing_filename gives for a date and a well-formed URL is
\* the name it gives for the same date in any other form, with or without a
\* time of day, and any other URL with the same extension; parse of that name
\* gives the date, and the kind Scheduled.
C16_ScheduledNameRoundTrip ==
    (call.op = "get_bing_filename" /\ call.wellformed) =>
       /\ \A form \in DateForms, u \in UrlInputs :
             (u.wellformed /\ u.low = call.low) =>
                get_bing_filename(DateStr(DateOf(call.day), form), u.url) = call.result
       /\ call.parsed = StartOfDay(call.day)
       /\ call.kind = "Scheduled"

C16_Witness ==
    /\ call.op = "get_bing_filename"
    /\ call.wellformed
    /\ call.date_str = DateStr(DateOf(1), "iso_time")
    /\ call.low = DotJpg
    /\ call.result = BingDay1
    /\ call.parsed = StartOfDay(1)

\* an extension with one separator, at its start
SingleExtension(e) == Len(e) >= 2 /\ e[1] = "." /\ \A i \in 2..Len(e) : e[i] # "."

\* a name of one of the two encodings: the prefix, the digits, one extension
NamerForm(name) ==
    \/ /\ Len(name) > 13
       /\ SubSeq(name, 1, 5) = BingPrefix
       /\ AllDigits(SubSeq(name, 6, 13))
       /\ SingleExtension(From(name, 14))
    \/ /\ Len(name) > 22
       /\ SubSeq(name, 1, 7) = CustomPrefix
       /\ AllDigits(SubSeq(name, 8, 15))
       /\ name[16] = "_"
       /\ AllDigits(SubSeq(name, 17, 22))
       /\ SingleExtension(From(name, 23))

\* C17: parse recognizes no name that is not of one of the two encodings.
C17_ParseStrict ==
    (call.op = "parse" /\ call.result # NoMatch) => NamerForm(call.name)

\* C18: parse of a name of one of the two patterns whose digits are no date or
\* no time of day gives no match, and the list does not hold such a name.
C18_InvalidDateNoMatch ==
    /\ (call.op = "parse" /\ call.name \in {BingBadDate, BingFeb30, CustomHour25})
       => (call.result = NoMatch /\ call.kind = "none")
    /\ (call.op = "list") => BingBadDate \notin Range(call.result)

C18_Witness ==
    /\ call.op = "parse"
    /\ call.name = BingBadDate
    /\ BingMatch(call.name)
    /\ call.result = NoMatch

\* C19: the name get_custom_filename gives ends in the lower-case form of the
\* extension passed, with one dot before it, which follows the timestamp's
\* last digit; with no extension passed the name ends in .jpg.
C19_CustomExtensionNormalized ==
    (call.op = "get_custom_filename") =>
       /\ EndsWith(call.result, call.low)
       /\ Len(call.result) > Len(call.low)
       /\ IsDigit(call.result[Len(call.result) - Len(call.low)])
       /\ call.extension = <<>> => EndsWith(call.result, DotJpg)

C19_Witness ==
    /\ call.op = "get_custom_filename"
    /\ call.extension = <<"P", "N", "G">>
    /\ EndsWith(call.result, <<"0", ".", "p", "n", "g">>)

\* C20: get_bing_filename returns a name for every URL: one that ends in the
\* extension of the URL's path, and in .jpg when the path has none or the URL
\* cannot be parsed.
C20_AlwaysAName ==
    (call.op = "get_bing_filename") =>
       /\ call.result # Raised
       /\ EndsWith(call.result, IF call.low = <<>> THEN DotJpg ELSE call.low)

\* C21: two calls of get_custom_filename with the same extension, the second
\* at least one second after the first by the clock, return different names.
C21_DistinctAfterOneSecond ==
    (call.op = "get_custom_filename_twice" /\ call.first # call.second) =>
       call.results[1] # call.results[2]

\* two calls one second apart, across midnight
C21_Witness ==
    /\ call.op = "get_custom_filename_twice"
    /\ call.second.day = call.first.day + 1
    /\ SecondOfDay(call.first.time) = 86399
    /\ SecondOfDay(call.second.time) = 0
    /\ call.results[1] # call.results[2]

\* the positions of the plan's commands that set the given key
PlanPositions(key) ==
    {i \in 1..Len(ad.commands_to_run) : ad.commands_to_run[i].key = key}

\* C22: in every command plan a command that sets the picture options comes
\* before the command that sets the primary URI, which comes before every
\* dark-variant command; the plan holds a dark-variant command exactly when
\* should_set_dark_uri is true, and that command sets the primary key's URI.
C22_PlanOrder ==
    (ad.commands_to_run # <<>>) =>
       /\ PlanPositions(KEY_PICTURE_OPTIONS) # {}
       /\ PlanPositions(KEY_PICTURE_URI) # {}
       /\ \A o \in PlanPositions(KEY_PICTURE_OPTIONS), u \in PlanPositions(KEY_PICTURE_URI) :
             o < u
       /\ \A u \in PlanPositions(KEY_PICTURE_URI), d \in PlanPositions(KEY_PICTURE_URI_DARK) :
             /\ u < d
             /\ ad.commands_to_run[d].value = ad.commands_to_run[u].value
       /\ (PlanPositions(KEY_PICTURE_URI_DARK) # {}) <=> ad.should_set_dark_uri
       /\ \A i \in 1..Len(ad.commands_to_run) :
             ad.commands_to_run[i].key \in
                {KEY_PICTURE_OPTIONS, KEY_PICTURE_URI, KEY_PICTURE_URI_DARK}
       /\ \A u \in PlanPositions(KEY_PICTURE_URI) :
             ad.commands_to_run[u].value = AsUri(ad.image_path)

\* a plan with the dark-variant command, carried out to the end
C22_Witness ==
    /\ ad.state = "Succeeded"
    /\ ad.should_set_dark_uri
    /\ PlanPositions(KEY_PICTURE_URI_DARK) # {}
    /\ \E i \in 1..Len(ad.issued) : ad.issued[i].cmd.key = KEY_PICTURE_URI_DARK

\* C23: an apply that returns failure has attempted the failure notification,
\* whatever made it fail, an apply that returns success has attempted the
\* success notification, and no apply attempts both.
C23_AlwaysNotifies ==
    /\ ad.state = "Failed" =>
          \E i \in 1..Len(ad.notified) : ad.notified[i].title = "ChromaDesk Error"
    /\ ad.state = "Succeeded" =>
          \E i \in 1..Len(ad.notified) : ad.notified[i].title = "ChromaDesk"
    /\ Len(ad.notified) <= 1

\* whether every command of the plan was run, each time with exit status 0
AllCommandsOk ==
    /\ Len(ad.issued) = RunsPerCommand * Len(ad.commands_to_run)
    /\ \A i \in 1..Len(ad.issued) : ad.issued[i].outcome = "ok"

\* C24: whatever the two notification mechanisms do (show the notification,
\* be unavailable, raise), set_gnome_wallpaper returns, and returns success
\* exactly when every command of the plan succeeded.
C24_NotificationNeverChangesResult ==
    /\ ad.state # "Raised"
    /\ (ad.state \in {"Succeeded", "Failed"} /\ ad.notified # <<>>) =>
          /\ ad.success <=> AllCommandsOk
          /\ (ad.state = "Succeeded") <=> ad.success
    /\ ad.state = "Notifying" =>
          /\ \A n \in NotifyResults(ad) : n.success = ad.success
          /\ ad.success <=> AllCommandsOk

\* the commands succeeded and both mechanisms raised
C24_Witness ==
    /\ ad.state = "Succeeded"
    /\ AllCommandsOk
    /\ ad.notified[1].outcomes = <<"raised", "raised">>

\* C25: notify2 is always attempted first; the direct D-Bus call is attempted
\* exactly when notify2 did not send the notification, and after it.
C25_OrderedFallback ==
    \A i \in 1..Len(ad.notified) :
       LET n == ad.notified[i]
       IN  /\ n.tried[1] = "notify2"
           /\ (Len(n.tried) = 2) <=> (n.outcomes[1] # "sent")
           /\ Len(n.tried) = 2 => n.tried[2] = "dbus"
           /\ Len(n.tried) \in {1, 2}
           /\ Len(n.outcomes) = Len(n.tried)

\* notify2 is unavailable and the D-Bus call sends the notification
C25_Witness ==
    /\ ad.notified # <<>>
    /\ ad.notified[1].tried = <<"notify2", "dbus">>
    /\ ad.notified[1].outcomes = <<"unavailable", "sent">>

\* a probe that failed: gsettings missing, timed out, or exited non-zero (as
\* it does when the schema is not installed)
ProbeFailed(probe) == probe \in {"ToolMissing", "TimeoutExpired", "CalledProcessError"}

C27_NoProbeOnX11 ==
    /\ ad.session_type = "x11" =>
          /\ \A i \in 1..Len(ad.probes) : ad.probes[i] = "none"
          /\ ~ad.should_set_dark_uri
    /\ ad.session_type # "x11" =>
          \A i \in 1..Len(ad.probes) : ad.probes[i] \in ProbeOutcomes

\* an x11 session after the blocks that determine should_set_dark_uri
C27_Witness ==
    /\ ad.state = "BuildingCommandPlan"
    /\ ad.session_type = "x11"
    /\ Len(ad.probes) = ProbeBlocks
    /\ \A i \in 1..Len(ad.probes) : ad.probes[i] = "none"

\* C28: an apply invoked with the path of a file that does not exist returns
\* failure at once: it issues no probe, builds no plan and runs no command.
C28_MissingArtifactFailsFast ==
    (ad.state # "Idle" /\ ad.image_path \notin dir) =>
       /\ ad.state = "Failed"
       /\ ~ad.success
       /\ ad.cause = "ArtifactNotFound"
       /\ ad.probes = <<>>
       /\ ad.commands_to_run = <<>>
       /\ ad.issued = <<>>

\* an apply of a file that is not in the directory has returned
C28_Witness ==
    /\ ad.state = "Failed"
    /\ ad.image_path # NoPath
    /\ ad.image_path \notin dir
    /\ ad.issued = <<>>

\* C29: download_image returns True only when the bytes received are a valid
\* JPEG or PNG image, and when it returns False it leaves no file at save_path
\* that it wrote: the directory and its files are as they were.
C29_FailedDownloadLeavesNoFile ==
    (call.op = "download_image") =>
       /\ call.result.ok => call.outcome = "ok"
       /\ ~call.result.ok =>
             /\ call.result.dir = call.files
             /\ call.result.partial = call.part

\* C30: when two daily updates of one day run at the same time on the same
\* path, neither removes or truncates the file the other has saved, and each
\* calls set_gnome_wallpaper only on a file that is there and fully written.
C30_InterleavingSafe ==
    \A p \in DOMAIN inv.run :
       /\ inv.run[p].hurt = "none"
       /\ inv.run[p].applied \in {"none", "complete"}

\* the positions of a daily update in the order the orchestrator goes through
\* them
RunOrder(i) ==
    IF i = "headless"
    THEN <<"load", "today", "ensure_dir", "fetch", "filename", "download", "apply",
           "set_state", "cleanup", "idle">>
    ELSE <<"load", "fetch", "today", "ensure_dir", "filename", "download", "apply",
           "set_state", "cleanup", "idle">>

PcRank(i, p) == CHOOSE k \in 1..Len(RunOrder(i)) : RunOrder(i)[k] = p

AdapterSuccessors(s) ==
    IF s \in {"Idle", "Succeeded", "Failed"} THEN {"ProbingEnvironment", "Failed"}
    ELSE IF s = "ProbingEnvironment" THEN {"ProbingEnvironment", "BuildingCommandPlan"}
    ELSE IF s = "BuildingCommandPlan" THEN {"Executing"}
    ELSE IF s = "Executing" THEN {"Executing", "Notifying"}
    ELSE {"Succeeded", "Failed"}

\* C32: an apply goes from probing to plan building to executing, in that
\* order, and from the final notification to Succeeded or to Failed; and every
\* apply that has started reaches Succeeded or Failed.
C32_ApplyTerminates ==
    /\ [][ad'.state \in AdapterSuccessors(ad.state)]_vars
    /\ (ad.state \notin {"Idle", "Succeeded", "Failed"}) ~> (ad.state \in {"Succeeded", "Failed"})

\* an apply that has gone through every state and run every command
C32_Witness ==
    /\ ad.state = "Succeeded"
    /\ ad.commands_to_run # <<>>
    /\ Len(ad.issued) = RunsPerCommand * Len(ad.commands_to_run)
    /\ ad.notified # <<>>

C34_AppliedSurvives ==
    (pc = "idle" /\ out.result = "Succeeded") => loc.applied \in dir

\* C35: a finished run did the same whichever orchestrator ran it: started on
\* a day already recorded as updated it is skipped without asking the feed,
\* and whenever it asked the feed the wallpaper directory existed.
C35_SameBehaviour ==
    (pc = "idle" /\ runs > 0) =>
       /\ (snap.cfg.exists /\ snap.cfg.enabled
             /\ snap.cfg.last_update_date = IsoFormat(DateOf(snap.today)))
            => (out.result = "Skipped" /\ ev = <<>>)
       /\ Did("fetch") => isDir

\* C36: when save_custom_wallpaper returns a path, the file at that path is in
\* the wallpaper directory.
C36_SavedFileExists ==
    (call.op = "save_custom_wallpaper" /\ call.result # NoPath)
       => call.result \in call.dir

\* C37: once the window's set_setting of the region and the daily update's
\* set_setting of last_update_date have both saved, the file holds both values.
C37_BothSettingsKept ==
    (\A p \in SetterProcs : setters[p].pc = "done" /\ setters[p].saved)
       => \A p \in SetterProcs : cfg[SetterKey(p)] = setters[p].value

\* C38: the checkbox handler changes the enabled flag only when the
\* scheduler's command succeeded, and then to the state asked for; and the
\* enable command is issued only directly after the daemon was reloaded over
\* both unit files.
C38_FlagFollowsScheduler ==
    /\ (call.op = "on_daily_update_toggled") =>
          /\ (~call.success \/ call.raised) => (~call.saved /\ call.after = call.before)
          /\ call.saved => (call.success /\ call.after = call.enable)
    /\ \A i \in 1..Len(sched.issued) :
          sched.issued[i].cmd = "enable" =>
             /\ sched.issued[i].units = UnitFiles
             /\ i > 1 /\ sched.issued[i - 1].cmd = "daemon-reload"

\* the checkbox was ticked, the timer was enabled and the flag written, and
\* then unticked with the disable command failing
C38_Witness ==
    /\ call.op = "on_daily_update_toggled"
    /\ ~call.enable /\ ~call.success
    /\ call.before /\ cfg.enabled
    /\ sched.timer_enabled

\* C39: the set-config command exits with 0 exactly when the setting was
\* written.
C39_StatusTellsWritten ==
    (call.op = "set-config") => (call.status = 0 <=> call.written)

\* C40: uninstalling leaves the wallpaper directory as it was and removes
\* nothing but unit files and the config file.
C40_UninstallKeepsArtifacts ==
    (call.op = "on_uninstall_clicked") =>
       /\ call.dir_after = call.dir_before
       /\ dir = call.dir_before
       /\ isDir

\* an uninstall that removed both unit files and the config file, with
\* artifacts in the wallpaper directory
C40_Witness ==
    /\ call.op = "on_uninstall_clicked"
    /\ call.units_before = UnitFiles /\ sched.units = {}
    /\ call.config_before /\ ~cfg.exists
    /\ call.errors = {}
    /\ call.dir_before # {}

====
